---- MODULE Spec2Model ----
(***************************************************************************)
(* A model of the pyvnc RFB 3.8 client (src/pyvnc): the handshake of       *)
(* _sync_connect_vnc / _async_connect_vnc, the framebuffer loop of         *)
(* capture, and the scoped key and mouse holds.  The connection is a pair  *)
(* of byte streams: inbuf holds the server bytes not yet read by the       *)
(* client, sent holds the bytes the client has written.  Bytes are the     *)
(* integers 0..255 and every message is built and parsed byte by byte.     *)
(***************************************************************************)
EXTENDS Integers, Sequences, FiniteSets, TLC

VARIABLES
    variant,        \* "sync" (pyvnc_sync.py) or "async" (pyvnc_async.py)
    cfg,            \* VNCConfig: password, pixel_format
    pc,             \* position of the client in connect / capture
    err,            \* the exception delivered to the caller, "none" if none
    reason,         \* the bytes of the message of that exception
    sent,           \* bytes written by the client, in order
    inbuf,          \* server bytes not yet read by the client
    nread,          \* number of server bytes read by the call in progress
    sockOpen,       \* FALSE once close() was called on the socket / writer
    auth_type,      \* local auth_type of the connect function
    rect,           \* CommonVNCClient.rect: the framebuffer [width, height]
    srv,            \* the peer: what the server has sent and offered
    region,         \* capture: the requested rectangle
    request,        \* capture: the arguments of the call
    pixels,         \* capture: the local np.zeros((h, w, 4)) buffer
    remaining,      \* capture: rectangles of the current message left to read
    zdec,           \* the session's decompressobj: bytes fed so far
    result,         \* capture: the returned grid
    marks,          \* positions in inbuf at which a server message starts
    written,        \* capture: cells assigned by a rectangle of this call
    frames,         \* input: the stack of active hold scopes
    exc,            \* input: the exception propagating through the scopes
    outcome,        \* input: how the last top-level operation ended
    mouse_position, \* CommonVNCClient.mouse_position
    mouse_buttons,  \* CommonVNCClient.mouse_buttons
    relative_mode,  \* the _relative_mode attribute ("unset" before first use)
    calls,          \* number of operations the caller has started
    twin,           \* what the other variant did on the same server bytes
    tasks           \* async: the tasks of the event loop that use the session

connVars == <<variant, cfg, pc, err, reason, sent, inbuf, nread, sockOpen,
              auth_type, rect, srv>>
capVars == <<region, request, pixels, remaining, zdec, result, marks, written>>
inVars == <<frames, exc, outcome, mouse_position, mouse_buttons, relative_mode,
            calls, twin, tasks>>
vars == <<connVars, capVars, inVars>>

(***************************************************************************)
(* Bounds of the model.                                                    *)
(***************************************************************************)
MaxReason == 2      \* longest reason string the server sends
MaxName == 1        \* longest desktop name the server sends

(***************************************************************************)
(* Constants of pyvnc_common.py.                                           *)
(***************************************************************************)
VNC_PROTOCOL_VERSION == <<82, 70, 66, 32, 48, 48, 51, 46, 48, 48, 56, 10>>
VNC_PROTOCOL_HEADER_SIZE == 12
VNC_PROTOCOL_PREFIX == <<82, 70, 66, 32>>
AUTH_TYPE_NONE == 1
AUTH_TYPE_VNC == 2
AUTH_TYPE_APPLE == 33
MSG_TYPE_FRAMEBUFFER_UPDATE == 0
MSG_TYPE_CLIPBOARD == 2
ENCODING_RAW == 0
ENCODING_ZLIB == 6
encodings == <<ENCODING_ZLIB>>
pixel_formats ==
    [bgra |-> <<32, 24, 0, 1, 0, 255, 0, 255, 0, 255, 16, 8, 0, 0, 0, 0>>,
     rgba |-> <<32, 24, 0, 1, 0, 255, 0, 255, 0, 255, 0, 8, 16, 0, 0, 0>>,
     argb |-> <<32, 24, 1, 1, 0, 255, 0, 255, 0, 255, 16, 8, 0, 0, 0, 0>>,
     abgr |-> <<32, 24, 1, 1, 0, 255, 0, 255, 0, 255, 0, 8, 16, 0, 0, 0>>]

(***************************************************************************)
(* Byte strings.                                                           *)
(***************************************************************************)
RECURSIVE Pow(_, _)
Pow(b, n) == IF n = 0 THEN 1 ELSE b * Pow(b, n - 1)

\* int.to_bytes(n, 'big')
ToBytes(v, n) == [i \in 1..n |-> (v \div Pow(256, n - i)) % 256]

\* int.from_bytes(s, 'big')
RECURSIVE FromBytes(_)
FromBytes(s) ==
    IF s = <<>> THEN 0
    ELSE FromBytes(SubSeq(s, 1, Len(s) - 1)) * 256 + s[Len(s)]

Take(s, n) == SubSeq(s, 1, n)
Drop(s, n) == SubSeq(s, n + 1, Len(s))
Range(s) == {s[i] : i \in 1..Len(s)}
Reverse(s) == [i \in 1..Len(s) |-> s[Len(s) + 1 - i]]

\* read(sock, length) on the bytes available now: "ok" when length bytes
\* are there, "eof" when the peer closed before they arrived, "block"
\* when the call waits for more.
ReadOutcome(need) ==
    IF Len(inbuf) >= need THEN "ok"
    ELSE IF srv.closed THEN "eof" ELSE "block"

\* read_int(sock, n) at offset off of the unread bytes
ReadInt(buf, off, n) == FromBytes(SubSeq(buf, off + 1, off + n))

(***************************************************************************)
(* VNC authentication primitives.                                          *)
(***************************************************************************)
\* Mutant of RevBits: the byte is used as it is.
RevBitsNone(n) == n

\* int(bin(n)[:1:-1].ljust(8, '0'), 2): the bits of one byte in reverse order
RevBits(n) ==
    (n % 2) * 128 + ((n \div 2) % 2) * 64 + ((n \div 4) % 2) * 32
    + ((n \div 8) % 2) * 16 + ((n \div 16) % 2) * 8 + ((n \div 32) % 2) * 4
    + ((n \div 64) % 2) * 2 + ((n \div 128) % 2)

\* password.encode('ascii')[:8].ljust(8, b'\x00'), each byte bit-reversed
DesKey(password) ==
    [i \in 1..8 |-> RevBits(IF i <= Len(password) THEN password[i] ELSE 0)]

\* Cipher(TripleDES(key), ECB()).encryptor().update(data) + finalize(): the
\* cipher is an external primitive; it is represented by a keyed byte
\* substitution applied to each 8-byte block, which keeps what the client
\* relies on (one output block per input block, determined by key and block).
DesEcbEncrypt(key, data) ==
    [i \in 1..(8 * (Len(data) \div 8)) |->
        (data[i] + key[((i - 1) % 8) + 1] + ((i - 1) % 8)) % 256]

\* Mutant of SelectAuth: the two types are tried in the other order.
SelectAuthPreferNone(auth_types) ==
    IF AUTH_TYPE_NONE \in auth_types THEN AUTH_TYPE_NONE
    ELSE IF AUTH_TYPE_VNC \in auth_types THEN AUTH_TYPE_VNC
    ELSE 0

\* Mutant of SelectAuth: without a password, None is taken when offered.
SelectAuthFallback(auth_types) ==
    IF AUTH_TYPE_VNC \in auth_types
       /\ (cfg.password.set \/ AUTH_TYPE_NONE \notin auth_types)
    THEN AUTH_TYPE_VNC
    ELSE IF AUTH_TYPE_NONE \in auth_types THEN AUTH_TYPE_NONE
    ELSE 0

\* for auth_type in (AUTH_TYPE_VNC, AUTH_TYPE_NONE): if auth_type in
\* auth_types: break; 0 stands for the else branch of the loop
SelectAuth(auth_types) ==
    IF AUTH_TYPE_VNC \in auth_types THEN AUTH_TYPE_VNC
    ELSE IF AUTH_TYPE_NONE \in auth_types THEN AUTH_TYPE_NONE
    ELSE 0

\* SetPixelFormat followed by SetEncodings, written in one sendall
RECURSIVE EncodingBytes(_)
EncodingBytes(es) ==
    IF es = <<>> THEN <<>> ELSE ToBytes(es[1], 4) \o EncodingBytes(Tail(es))

\* Mutant of SessionInitBytes: Raw is listed beside zlib.
SessionInitBytesWithRaw(fmt) ==
    <<0, 0, 0, 0>> \o pixel_formats[fmt] \o <<2, 0>>
    \o ToBytes(2, 2) \o ToBytes(ENCODING_ZLIB, 4) \o ToBytes(ENCODING_RAW, 4)

SessionInitBytes(fmt) ==
    <<0, 0, 0, 0>> \o pixel_formats[fmt] \o <<2, 0>>
    \o ToBytes(Len(encodings), 2) \o EncodingBytes(encodings)

(***************************************************************************)
(* The bytes each handshake step reads, given the unread bytes: a step     *)
(* that reads a length and then that many bytes needs the length first.    *)
(***************************************************************************)
\* read(sock, read_int(sock, 1)), then for no types read(sock, read_int(sock, 4))
SecurityNeed(buf) ==
    IF Len(buf) < 1 THEN 1
    ELSE IF buf[1] > 0 THEN 1 + buf[1]
    ELSE IF Len(buf) < 5 THEN 5
    ELSE 5 + ReadInt(buf, 1, 4)

\* read_int(sock, 4), then for a status other than 0, 1, 2 read(sock, auth_result)
ResultNeed(buf) ==
    IF Len(buf) < 4 THEN 4
    ELSE LET auth_result == ReadInt(buf, 0, 4) IN
         IF auth_result \in {0, 1, 2} THEN 4 ELSE 4 + auth_result

\* read_int 2, read_int 2, read 16, read(sock, read_int(sock, 4))
ServerInitNeed(buf) ==
    IF Len(buf) < 24 THEN 24 ELSE 24 + ReadInt(buf, 20, 4)

Fail(kind, text) ==
    /\ pc' = "FAILED"
    /\ err' = kind
    /\ reason' = text

Consume(n) ==
    /\ inbuf' = Drop(inbuf, n)
    /\ nread' = nread + n

(***************************************************************************)
(* The peer of the handshake: an RFB server that answers what the client   *)
(* has written so far.  Every choice a server has is taken from a small    *)
(* set.                                                                    *)
(***************************************************************************)
Text(n) == [i \in 1..n |-> 96 + i]
Reasons == {Text(n) : n \in 0..MaxReason}
Names == {Text(n) : n \in 0..MaxName}
Greetings ==
    {VNC_PROTOCOL_VERSION,
     <<82, 70, 66, 32, 48, 48, 51, 46, 48, 48, 51, 10>>,
     <<72, 84, 84, 80, 47, 49, 46, 49, 32, 50, 48, 48>>}
TypeLists ==
    {<<>>, <<1>>, <<2>>, <<1, 2>>, <<33>>, <<33, 1>>, <<5>>, <<5, 33>>,
     <<2, 33>>}
Statuses == {0, 1, 2, 3}
Challenges == {[i \in 1..16 |-> i], [i \in 1..16 |-> 255 - i]}
FbSizes == {[width |-> 2, height |-> 2], [width |-> 3, height |-> 1]}
Passwords ==
    {[set |-> FALSE, bytes |-> <<>>], [set |-> TRUE, bytes |-> <<>>],
     [set |-> TRUE, bytes |-> <<112, 119>>]}
Configs == [password : Passwords, pixel_format : {"rgba", "bgra"}]

SrvGreeting ==
    /\ srv.pc = "greeting" /\ ~srv.closed
    /\ \E g \in Greetings :
        /\ inbuf' = inbuf \o g
        /\ srv' = [srv EXCEPT !.pc = "types", !.greeting = g,
                              !.sentN = @ + Len(g), !.out = @ \o g]
    /\ UNCHANGED <<variant, cfg, pc, err, reason, sent, nread, sockOpen,
                   auth_type, rect, capVars, inVars>>

SrvSecurityTypes ==
    /\ srv.pc = "types" /\ ~srv.closed
    /\ Len(sent) >= VNC_PROTOCOL_HEADER_SIZE
    /\ \E ts \in TypeLists, r \in Reasons :
        /\ ts # <<>> => r = <<>>
        /\ LET bytes == IF ts = <<>>
                        THEN <<0>> \o ToBytes(Len(r), 4) \o r
                        ELSE <<Len(ts)>> \o ts
           IN /\ inbuf' = inbuf \o bytes
              /\ srv' = [srv EXCEPT !.pc = IF ts = <<>> THEN "done" ELSE "auth",
                                    !.types = ts, !.reason = r,
                                    !.sentN = @ + Len(bytes),
                                    !.out = @ \o bytes]
    /\ UNCHANGED <<variant, cfg, pc, err, reason, sent, nread, sockOpen,
                   auth_type, rect, capVars, inVars>>

SrvChallenge ==
    /\ srv.pc = "auth" /\ ~srv.closed
    /\ Len(sent) >= 13 /\ sent[13] = AUTH_TYPE_VNC
    /\ \E c \in Challenges :
        /\ inbuf' = inbuf \o c
        /\ srv' = [srv EXCEPT !.pc = "response", !.challenge = c,
                              !.sentN = @ + 16, !.out = @ \o c]
    /\ UNCHANGED <<variant, cfg, pc, err, reason, sent, nread, sockOpen,
                   auth_type, rect, capVars, inVars>>

SrvResult ==
    /\ ~srv.closed
    /\ \/ srv.pc = "auth" /\ Len(sent) >= 13 /\ sent[13] = AUTH_TYPE_NONE
       \/ srv.pc = "response" /\ Len(sent) >= 29
    /\ \E st \in Statuses, withReason \in BOOLEAN, r \in Reasons :
        /\ (st = 0 \/ ~withReason) => r = <<>>
        /\ st = 0 => ~withReason
        /\ LET bytes == ToBytes(st, 4) \o
                        (IF withReason THEN ToBytes(Len(r), 4) \o r ELSE <<>>)
           IN /\ inbuf' = inbuf \o bytes
              /\ srv' = [srv EXCEPT !.pc = IF st = 0 THEN "init" ELSE "done",
                                    !.status = st, !.reason = r,
                                    !.withReason = withReason,
                                    !.statusEnd = srv.sentN + 4,
                                    !.sentN = @ + Len(bytes),
                                    !.out = @ \o bytes]
    /\ UNCHANGED <<variant, cfg, pc, err, reason, sent, nread, sockOpen,
                   auth_type, rect, capVars, inVars>>

SrvInit ==
    /\ srv.pc = "init" /\ ~srv.closed
    /\ Len(sent) >= (IF sent[13] = AUTH_TYPE_NONE THEN 14 ELSE 30)
    /\ \E fb \in FbSizes, name \in Names :
        LET bytes == ToBytes(fb.width, 2) \o ToBytes(fb.height, 2)
                     \o pixel_formats["bgra"] \o ToBytes(Len(name), 4) \o name
        IN /\ inbuf' = inbuf \o bytes
           /\ srv' = [srv EXCEPT !.pc = "run", !.fb = fb,
                                 !.sentN = @ + Len(bytes),
                                 !.out = @ \o bytes]
    /\ UNCHANGED <<variant, cfg, pc, err, reason, sent, nread, sockOpen,
                   auth_type, rect, capVars, inVars>>

\* The server closes its end: after a refusal, or at any other moment.
SrvClose ==
    /\ ~srv.closed
    /\ srv' = [srv EXCEPT !.closed = TRUE]
    /\ UNCHANGED <<variant, cfg, pc, err, reason, sent, inbuf, nread, sockOpen,
                   auth_type, rect, capVars, inVars>>

(***************************************************************************)
(* connect: _sync_connect_vnc and _async_connect_vnc.  The two functions   *)
(* are the same statement for statement; they differ in read() only.       *)
(***************************************************************************)
\* Mutant of ClientVersion: the reply is written before the prefix is tested.
ClientVersionReplyFirst ==
    /\ pc = "VERSION_EXCHANGE"
    /\ ReadOutcome(VNC_PROTOCOL_HEADER_SIZE) = "ok"
    /\ Consume(VNC_PROTOCOL_HEADER_SIZE)
    /\ sent' = sent \o VNC_PROTOCOL_VERSION
    /\ IF Take(inbuf, 4) # VNC_PROTOCOL_PREFIX
       THEN Fail("NotRfbServer", <<>>)
       ELSE pc' = "SECURITY_NEGOTIATION" /\ UNCHANGED <<err, reason>>
    /\ UNCHANGED <<variant, cfg, sockOpen, auth_type, rect, srv, capVars,
                   inVars>>

\* intro = read(sock, 12); prefix test; sendall(VNC_PROTOCOL_VERSION)
ClientVersion ==
    /\ pc = "VERSION_EXCHANGE"
    /\ ReadOutcome(VNC_PROTOCOL_HEADER_SIZE) = "ok"
    /\ Consume(VNC_PROTOCOL_HEADER_SIZE)
    /\ LET intro == Take(inbuf, VNC_PROTOCOL_HEADER_SIZE) IN
       IF Take(intro, 4) # VNC_PROTOCOL_PREFIX
       THEN Fail("NotRfbServer", <<>>) /\ sent' = sent
       ELSE /\ sent' = sent \o VNC_PROTOCOL_VERSION
            /\ pc' = "SECURITY_NEGOTIATION"
            /\ UNCHANGED <<err, reason>>
    /\ UNCHANGED <<variant, cfg, sockOpen, auth_type, rect, srv, capVars,
                   inVars>>

\* auth_types = set(read(sock, read_int(sock, 1))) and the choice of a type
ClientSecurity ==
    /\ pc = "SECURITY_NEGOTIATION"
    /\ ReadOutcome(SecurityNeed(inbuf)) = "ok"
    /\ Consume(SecurityNeed(inbuf))
    /\ LET auth_types == Range(SubSeq(inbuf, 2, 1 + inbuf[1]))
           chosen == SelectAuth(auth_types)
       IN IF auth_types = {}
          THEN /\ Fail("HandshakeRejected",
                       SubSeq(inbuf, 6, SecurityNeed(inbuf)))
               /\ auth_type' = auth_type
          ELSE IF chosen = 0
          THEN /\ IF AUTH_TYPE_APPLE \in auth_types
                  THEN Fail("AppleUnsupported", <<>>)
                  ELSE Fail("UnsupportedAuth", <<>>)
               /\ auth_type' = auth_type
          ELSE /\ auth_type' = chosen
               /\ pc' = IF chosen = AUTH_TYPE_VNC THEN "VNC_AUTH" ELSE "NO_AUTH"
               /\ UNCHANGED <<err, reason>>
    /\ UNCHANGED <<variant, cfg, sent, sockOpen, rect, srv, capVars, inVars>>

\* sendall(b'\x02'); if not config.password: raise
ClientVncAuth ==
    /\ pc = "VNC_AUTH"
    /\ sent' = sent \o <<AUTH_TYPE_VNC>>
    /\ IF ~cfg.password.set \/ cfg.password.bytes = <<>>
       THEN Fail("PasswordRequired", <<>>)
       ELSE pc' = "VNC_CHALLENGE" /\ UNCHANGED <<err, reason>>
    /\ UNCHANGED <<variant, cfg, inbuf, nread, sockOpen, auth_type, rect, srv,
                   capVars, inVars>>

\* sendall(encryptor.update(read(sock, 16)) + encryptor.finalize())
ClientVncChallenge ==
    /\ pc = "VNC_CHALLENGE"
    /\ ReadOutcome(16) = "ok"
    /\ Consume(16)
    /\ sent' = sent \o DesEcbEncrypt(DesKey(cfg.password.bytes), Take(inbuf, 16))
    /\ pc' = "SECURITY_RESULT"
    /\ UNCHANGED <<variant, cfg, err, reason, sockOpen, auth_type, rect, srv,
                   capVars, inVars>>

\* elif auth_type == AUTH_TYPE_NONE: sendall(b'\x01')
ClientNoAuth ==
    /\ pc = "NO_AUTH"
    /\ sent' = sent \o <<AUTH_TYPE_NONE>>
    /\ pc' = "SECURITY_RESULT"
    /\ UNCHANGED <<variant, cfg, err, reason, inbuf, nread, sockOpen,
                   auth_type, rect, srv, capVars, inVars>>

\* Mutant of ClientResult: a refused authentication is tried once more.
ClientResultRetry ==
    /\ pc = "SECURITY_RESULT"
    /\ ReadOutcome(ResultNeed(inbuf)) = "ok"
    /\ Consume(ResultNeed(inbuf))
    /\ LET auth_result == ReadInt(inbuf, 0, 4) IN
       IF auth_result = 0 THEN pc' = "CLIENT_INIT" /\ UNCHANGED <<err, reason>>
       ELSE IF auth_result = 1
       THEN /\ pc' = IF auth_type = AUTH_TYPE_VNC THEN "VNC_AUTH" ELSE "NO_AUTH"
            /\ UNCHANGED <<err, reason>>
       ELSE IF auth_result = 2 THEN Fail("AuthFailedTooManyAttempts", <<>>)
       ELSE Fail("AuthFailedReason", SubSeq(inbuf, 5, ResultNeed(inbuf)))
    /\ UNCHANGED <<variant, cfg, sent, sockOpen, auth_type, rect, srv, capVars,
                   inVars>>

\* auth_result = read_int(sock, 4) and its four branches
ClientResult ==
    /\ pc = "SECURITY_RESULT"
    /\ ReadOutcome(ResultNeed(inbuf)) = "ok"
    /\ Consume(ResultNeed(inbuf))
    /\ LET auth_result == ReadInt(inbuf, 0, 4) IN
       IF auth_result = 0 THEN pc' = "CLIENT_INIT" /\ UNCHANGED <<err, reason>>
       ELSE IF auth_result = 1 THEN Fail("AuthFailed", <<>>)
       ELSE IF auth_result = 2 THEN Fail("AuthFailedTooManyAttempts", <<>>)
       ELSE Fail("AuthFailedReason", SubSeq(inbuf, 5, ResultNeed(inbuf)))
    /\ UNCHANGED <<variant, cfg, sent, sockOpen, auth_type, rect, srv, capVars,
                   inVars>>

\* sendall(b'\x01'): ClientInit with the shared flag
ClientInit ==
    /\ pc = "CLIENT_INIT"
    /\ sent' = sent \o <<1>>
    /\ pc' = "SERVER_INIT"
    /\ UNCHANGED <<variant, cfg, err, reason, inbuf, nread, sockOpen,
                   auth_type, rect, srv, capVars, inVars>>

\* ServerInit is read, SetPixelFormat and SetEncodings are written, and the
\* client object is built: CommonVNCClient.__init__ and decompressobj()
ClientServerInit ==
    /\ pc = "SERVER_INIT"
    /\ ReadOutcome(ServerInitNeed(inbuf)) = "ok"
    /\ Consume(ServerInitNeed(inbuf))
    /\ rect' = [width |-> ReadInt(inbuf, 0, 2), height |-> ReadInt(inbuf, 2, 2)]
    /\ sent' = sent \o SessionInitBytes(cfg.pixel_format)
    /\ pc' = "INIT_READY"
    /\ zdec' = 0
    /\ mouse_position' = [x |-> 0, y |-> 0]
    /\ mouse_buttons' = 0
    /\ UNCHANGED <<twin, tasks, variant, cfg, err, reason, sockOpen, auth_type, srv,
                   region,
                   request, pixels, remaining, result, marks, written, frames,
                   exc, outcome, relative_mode, calls>>

\* The bytes the read of the current handshake step waits for.
HandshakeNeed ==
    CASE pc = "VERSION_EXCHANGE" -> VNC_PROTOCOL_HEADER_SIZE
      [] pc = "SECURITY_NEGOTIATION" -> SecurityNeed(inbuf)
      [] pc = "VNC_CHALLENGE" -> 16
      [] pc = "SECURITY_RESULT" -> ResultNeed(inbuf)
      [] pc = "SERVER_INIT" -> ServerInitNeed(inbuf)
      [] OTHER -> 0

\* Mutant of ClientReadEof: the async read takes the bytes that did arrive
\* out of the stream before it fails.
ClientReadEofDrain ==
    /\ pc \in {"VERSION_EXCHANGE", "SECURITY_NEGOTIATION", "VNC_CHALLENGE",
               "SECURITY_RESULT", "SERVER_INIT"}
    /\ ReadOutcome(HandshakeNeed) = "eof"
    /\ IF variant = "sync"
       THEN pc' = "HANG" /\ UNCHANGED <<err, reason, inbuf, nread>>
       ELSE Fail("TransportError", <<>>) /\ Consume(Len(inbuf))
    /\ UNCHANGED <<variant, cfg, sent, sockOpen, auth_type, rect, srv, capVars,
                   inVars>>

\* read() when the peer has closed before the bytes arrived.  sync: recv
\* returns b'' and the while loop never ends; async: ConnectionError.
ClientReadEof ==
    /\ pc \in {"VERSION_EXCHANGE", "SECURITY_NEGOTIATION", "VNC_CHALLENGE",
               "SECURITY_RESULT", "SERVER_INIT"}
    /\ ReadOutcome(HandshakeNeed) = "eof"
    /\ IF variant = "sync"
       THEN pc' = "HANG" /\ UNCHANGED <<err, reason>>
       ELSE Fail("TransportError", <<>>)
    /\ UNCHANGED <<variant, cfg, sent, inbuf, nread, sockOpen, auth_type, rect,
                   srv, capVars, inVars>>

(***************************************************************************)
(* Values of the variables a specification does not use.                   *)
(***************************************************************************)
NoRect == [x |-> 0, y |-> 0, width |-> 0, height |-> 0]
NoRequest == [kind |-> "None", rect |-> NoRect, relative |-> FALSE]

CapIdle ==
    /\ region = NoRect
    /\ request = NoRequest
    /\ pixels = <<>>
    /\ remaining = 0
    /\ zdec = 0
    /\ result = <<>>
    /\ marks = {}
    /\ written = {}

\* no other variant has run
NoTwin == [pc |-> "none", sent |-> <<>>, nread |-> 0, inbuf |-> <<>>]

\* no task but the caller's uses the session
NoTasks == <<>>

InIdle ==
    /\ frames = <<>>
    /\ exc = "none"
    /\ outcome = "none"
    /\ mouse_position = [x |-> 0, y |-> 0]
    /\ mouse_buttons = 0
    /\ relative_mode = "unset"
    /\ calls = 0
    /\ twin = NoTwin
    /\ tasks = NoTasks

SrvStart ==
    [pc |-> "greeting", greeting |-> <<>>, types |-> <<>>, status |-> 0, reason |-> <<>>,
     withReason |-> FALSE, statusEnd |-> 0, sentN |-> 0,
     challenge |-> <<>>, fb |-> [width |-> 0, height |-> 0],
     zenc |-> 0, left |-> 0, chunks |-> 0, covered |-> {}, done |-> FALSE,
     last |-> <<>>, closed |-> FALSE, out |-> <<>>,
     cut |-> FALSE, other |-> FALSE]

(***************************************************************************)
(* SpecConnect: one connect call against a server.                         *)
(***************************************************************************)
InitConnect ==
    /\ variant \in {"sync", "async"}
    /\ cfg \in Configs
    /\ pc = "VERSION_EXCHANGE"
    /\ err = "none"
    /\ reason = <<>>
    /\ sent = <<>>
    /\ inbuf = <<>>
    /\ nread = 0
    /\ sockOpen = TRUE
    /\ auth_type = 0
    /\ rect = [width |-> 0, height |-> 0]
    /\ srv = SrvStart
    /\ CapIdle
    /\ InIdle

NextConnect ==
    \/ SrvGreeting
    \/ SrvSecurityTypes
    \/ SrvChallenge
    \/ SrvResult
    \/ SrvInit
    \/ SrvClose
    \/ ClientVersion
    \/ ClientSecurity
    \/ ClientVncAuth
    \/ ClientVncChallenge
    \/ ClientNoAuth
    \/ ClientResult
    \/ ClientInit
    \/ ClientServerInit
    \/ ClientReadEof

SpecConnect == InitConnect /\ [][NextConnect]_vars

(***************************************************************************)
(* SpecTwin: the sync client connects to a server; whenever it has come to *)
(* rest (it waits for bytes, has returned, failed or hangs), the async     *)
(* client may be run on the bytes the server has written, srv.out, with    *)
(* the same configuration.  twin keeps what the sync client had sent and   *)
(* read.                                                                   *)
(***************************************************************************)
\* No statement of connect can run: the read in progress waits, or connect
\* has ended.
Quiescent ==
    \/ pc \in {"INIT_READY", "FAILED", "HANG"}
    \/ /\ pc \in {"VERSION_EXCHANGE", "SECURITY_NEGOTIATION", "VNC_CHALLENGE",
                  "SECURITY_RESULT", "SERVER_INIT"}
       /\ ReadOutcome(HandshakeNeed) = "block"

TwinSwitch ==
    /\ twin = NoTwin
    /\ Quiescent
    /\ twin' = [pc |-> pc, sent |-> sent, nread |-> nread, inbuf |-> inbuf]
    /\ variant' = "async"
    /\ pc' = "VERSION_EXCHANGE"
    /\ err' = "none"
    /\ reason' = <<>>
    /\ sent' = <<>>
    /\ inbuf' = srv.out
    /\ nread' = 0
    /\ auth_type' = 0
    /\ rect' = [width |-> 0, height |-> 0]
    /\ UNCHANGED <<cfg, sockOpen, srv, capVars, frames, exc, outcome,
                   mouse_position, mouse_buttons, relative_mode, calls,
                   tasks>>

TwinSync == twin = NoTwin /\ NextConnect

TwinAsync ==
    /\ twin # NoTwin
    /\ \/ ClientVersion
       \/ ClientSecurity
       \/ ClientVncAuth
       \/ ClientVncChallenge
       \/ ClientNoAuth
       \/ ClientResult
       \/ ClientInit
       \/ ClientServerInit
       \/ ClientReadEof

InitTwin ==
    /\ variant = "sync"
    /\ cfg \in Configs
    /\ pc = "VERSION_EXCHANGE"
    /\ err = "none"
    /\ reason = <<>>
    /\ sent = <<>>
    /\ inbuf = <<>>
    /\ nread = 0
    /\ sockOpen = TRUE
    /\ auth_type = 0
    /\ rect = [width |-> 0, height |-> 0]
    /\ srv = SrvStart
    /\ CapIdle
    /\ InIdle

NextTwin ==
    \/ TwinSync
    \/ TwinSwitch
    \/ TwinAsync

SpecTwin == InitTwin /\ [][NextTwin]_vars

(***************************************************************************)
(* Claims about connect, checked under SpecConnect.                        *)
(***************************************************************************)
Offered == Range(srv.types)
TypesSent == srv.pc \notin {"greeting", "types"}
NoPassword == ~cfg.password.set \/ cfg.password.bytes = <<>>
IsPrefix(s, t) == Len(s) <= Len(t) /\ s = Take(t, Len(s))

NoneAuthBytes ==
    VNC_PROTOCOL_VERSION \o <<1>> \o <<1>> \o <<0, 0, 0, 0>>
    \o pixel_formats[cfg.pixel_format] \o <<2, 0, 0, 1, 0, 0, 0, 6>>

\* C5: against a server that offers None and not VNC, the client writes
\* exactly the version string, 01, 01, SetPixelFormat with the configured
\* record and SetEncodings 02 00 00 01 00 00 00 06; the ClientInit byte is
\* written only after SecurityResult 0 was read, and SetPixelFormat only
\* after all of ServerInit, the desktop name included, was read.
C5_NoneAuthHandshakeBytes ==
    (TypesSent /\ AUTH_TYPE_NONE \in Offered /\ AUTH_TYPE_VNC \notin Offered) =>
        /\ IsPrefix(sent, NoneAuthBytes)
        /\ pc = "INIT_READY" => sent = NoneAuthBytes
        /\ Len(sent) > 13 =>
              /\ srv.pc \in {"init", "run"}
              /\ srv.status = 0
              /\ nread >= srv.statusEnd
        /\ Len(sent) > 14 => srv.pc = "run" /\ nread = srv.sentN

C5_Witness ==
    /\ pc = "INIT_READY"
    /\ srv.types = <<1>>
    /\ srv.greeting = VNC_PROTOCOL_VERSION
    /\ cfg.pixel_format = "bgra"
    /\ nread = srv.sentN
    /\ nread > 39

\* C6: for every non-empty offer the client selects 2 if offered, else 1 if
\* offered, and writes it as one byte after the version string; with neither
\* it fails with the Apple error when 33 is offered, else with the generic
\* unsupported-auth error.
C6_SecurityTypeSelection ==
    LET want == IF AUTH_TYPE_VNC \in Offered THEN AUTH_TYPE_VNC
                ELSE AUTH_TYPE_NONE
        past == pc \in {"VNC_CHALLENGE", "SECURITY_RESULT", "CLIENT_INIT",
                        "SERVER_INIT", "INIT_READY"}
    IN /\ pc \in {"VNC_AUTH", "NO_AUTH"} =>
            /\ Offered \cap {AUTH_TYPE_VNC, AUTH_TYPE_NONE} # {}
            /\ auth_type = want
            /\ (pc = "VNC_AUTH") = (want = AUTH_TYPE_VNC)
            /\ sent = VNC_PROTOCOL_VERSION
       /\ past => Len(sent) >= 13
       /\ Len(sent) >= 13 =>
            /\ Offered \cap {AUTH_TYPE_VNC, AUTH_TYPE_NONE} # {}
            /\ sent[13] = want
            /\ auth_type = want
       /\ err = "AppleUnsupported" =>
            /\ Offered \cap {AUTH_TYPE_VNC, AUTH_TYPE_NONE} = {}
            /\ AUTH_TYPE_APPLE \in Offered
       /\ err = "UnsupportedAuth" =>
            /\ Offered # {}
            /\ Offered \cap {AUTH_TYPE_VNC, AUTH_TYPE_NONE, AUTH_TYPE_APPLE} = {}
       /\ (/\ Offered # {}
           /\ Offered \cap {AUTH_TYPE_VNC, AUTH_TYPE_NONE} = {}
           /\ pc = "FAILED" /\ err # "TransportError") =>
            err = IF AUTH_TYPE_APPLE \in Offered THEN "AppleUnsupported"
                  ELSE "UnsupportedAuth"

C6_Witness ==
    /\ pc = "VNC_CHALLENGE"
    /\ srv.types = <<1, 2>>
    /\ sent = VNC_PROTOCOL_VERSION \o <<2>>

\* C7: after zero security types (with a reason) or an offer without 1 and
\* 2, connect fails and the client has written the 12-byte version reply and
\* nothing else; after a greeting that does not start with 'RFB ' connect
\* fails and the client has written nothing.
C7_RefusalSendsNothingMore ==
    /\ err \in {"HandshakeRejected", "AppleUnsupported", "UnsupportedAuth"} =>
          /\ pc = "FAILED"
          /\ sent = VNC_PROTOCOL_VERSION
    /\ err = "HandshakeRejected" => srv.types = <<>> /\ reason = srv.reason
    /\ err = "NotRfbServer" => pc = "FAILED" /\ sent = <<>>
    /\ (TypesSent /\ Offered \cap {AUTH_TYPE_VNC, AUTH_TYPE_NONE} = {}) =>
          /\ pc \in {"SECURITY_NEGOTIATION", "FAILED", "HANG"}
          /\ sent = VNC_PROTOCOL_VERSION
          /\ (pc = "FAILED" /\ err # "TransportError") =>
                err \in {"HandshakeRejected", "AppleUnsupported",
                         "UnsupportedAuth"}
    /\ (srv.pc # "greeting" /\ Take(srv.greeting, 4) # VNC_PROTOCOL_PREFIX) =>
          /\ pc \in {"VERSION_EXCHANGE", "FAILED", "HANG"}
          /\ sent = <<>>
          /\ (pc = "FAILED" /\ err # "TransportError") => err = "NotRfbServer"

C7_Witness ==
    /\ err = "HandshakeRejected"
    /\ reason = Text(MaxReason)
    /\ sent = VNC_PROTOCOL_VERSION

\* C8: without a password connect fails with the password-required error
\* exactly when type 2 is selected, that is whenever the server offers 2,
\* also beside 1; with a password and type 2 the client reads the 16-byte
\* challenge and writes exactly 16 bytes before it reads SecurityResult.
C8_PasswordRequiredAndResponse ==
    /\ err = "PasswordRequired" =>
          /\ AUTH_TYPE_VNC \in Offered
          /\ NoPassword
          /\ pc = "FAILED"
    /\ (TypesSent /\ AUTH_TYPE_VNC \in Offered /\ NoPassword) =>
          /\ pc \in {"SECURITY_NEGOTIATION", "VNC_AUTH", "FAILED", "HANG"}
          /\ (pc = "FAILED" /\ err # "TransportError") => err = "PasswordRequired"
    /\ (auth_type = AUTH_TYPE_VNC /\ pc = "SECURITY_RESULT") =>
          /\ ~NoPassword
          /\ Len(sent) = 12 + 1 + 16
          /\ nread = 12 + 1 + Len(srv.types) + 16
          /\ SubSeq(sent, 14, 29) =
                DesEcbEncrypt(DesKey(cfg.password.bytes), srv.challenge)
    /\ (auth_type = AUTH_TYPE_VNC
        /\ pc \in {"CLIENT_INIT", "SERVER_INIT", "INIT_READY"}) =>
          Len(sent) >= 29

C8_Witness ==
    /\ err = "PasswordRequired"
    /\ srv.types = <<1, 2>>
    /\ ~cfg.password.set

\* C9: status 0 continues; 1 fails with AuthFailed and 2 with
\* AuthFailedTooManyAttempts, both without reading further; for any other
\* status the client reads a 4-byte length, then that many bytes, and
\* reports those bytes as the reason.
C9_SecurityResultBranches ==
    /\ pc \in {"CLIENT_INIT", "SERVER_INIT", "INIT_READY"} => srv.status = 0
    /\ err = "AuthFailed" => srv.status = 1 /\ nread = srv.statusEnd
    /\ err = "AuthFailedTooManyAttempts" =>
          srv.status = 2 /\ nread = srv.statusEnd
    /\ err = "AuthFailedReason" =>
          /\ srv.status \notin {0, 1, 2}
          /\ srv.withReason =>
                /\ nread = srv.statusEnd + 4 + Len(srv.reason)
                /\ reason = srv.reason

\* C10: with VNC auth selected and SecurityResult 1, connect fails with
\* AuthFailed, no ClientInit byte is written, and the connection is closed
\* when the failure is reported.
C10_AuthFailureClosesConnection ==
    (auth_type = AUTH_TYPE_VNC /\ srv.status = 1 /\ nread >= srv.statusEnd
     /\ srv.statusEnd > 0) =>
        /\ pc = "FAILED"
        /\ err = "AuthFailed"
        /\ Len(sent) = 12 + 1 + 16
        /\ ~sockOpen

(***************************************************************************)
(* Floating-point arithmetic of the coordinate mapper.  The code divides   *)
(* and multiplies Python floats (IEEE 754 binary64): every operation       *)
(* yields the exact result rounded to 53 significant bits, ties to even.   *)
(* A non-negative float is kept as an exact fraction num / den whose       *)
(* denominator is a power of two; num and den are natural numbers of any   *)
(* size, written as sequences of limbs in base LimbBase, lowest first,     *)
(* without leading zero limbs (<<>> is 0).                                 *)
(***************************************************************************)
LimbBits == 15
LimbBase == 32768
MantissaBits == 53

RECURSIVE BigOf(_)
BigOf(n) == IF n = 0 THEN <<>> ELSE <<n % LimbBase>> \o BigOf(n \div LimbBase)

RECURSIVE BigToInt(_)
BigToInt(a) ==
    IF a = <<>> THEN 0 ELSE a[1] + LimbBase * BigToInt(Tail(a))

RECURSIVE BigNorm(_)
BigNorm(a) ==
    IF a = <<>> THEN <<>>
    ELSE IF a[Len(a)] = 0 THEN BigNorm(SubSeq(a, 1, Len(a) - 1))
    ELSE a

RECURSIVE BigAddC(_, _, _)
BigAddC(a, b, c) ==
    IF a = <<>> /\ b = <<>> THEN (IF c = 0 THEN <<>> ELSE <<c>>)
    ELSE LET x == IF a = <<>> THEN 0 ELSE a[1]
             y == IF b = <<>> THEN 0 ELSE b[1]
             s == x + y + c
         IN <<s % LimbBase>>
            \o BigAddC(IF a = <<>> THEN <<>> ELSE Tail(a),
                       IF b = <<>> THEN <<>> ELSE Tail(b), s \div LimbBase)

BigAdd(a, b) == BigAddC(a, b, 0)

\* a - b - br limb by limb, for a >= b + br
RECURSIVE BigSubB(_, _, _)
BigSubB(a, b, br) ==
    IF a = <<>> THEN <<>>
    ELSE LET y == IF b = <<>> THEN 0 ELSE b[1]
             d == a[1] - y - br
         IN <<IF d < 0 THEN d + LimbBase ELSE d>>
            \o BigSubB(Tail(a), IF b = <<>> THEN <<>> ELSE Tail(b),
                       IF d < 0 THEN 1 ELSE 0)

BigSub(a, b) == BigNorm(BigSubB(a, b, 0))

RECURSIVE BigGeq(_, _)
BigGeq(a, b) ==
    IF Len(a) # Len(b) THEN Len(a) > Len(b)
    ELSE IF a = <<>> THEN TRUE
    ELSE IF a[Len(a)] # b[Len(b)] THEN a[Len(a)] > b[Len(b)]
    ELSE BigGeq(SubSeq(a, 1, Len(a) - 1), SubSeq(b, 1, Len(b) - 1))

\* a * s + c for one limb s
RECURSIVE BigMulLimb(_, _, _)
BigMulLimb(a, s, c) ==
    IF a = <<>> THEN (IF c = 0 THEN <<>> ELSE <<c>>)
    ELSE LET p == a[1] * s + c
         IN <<p % LimbBase>> \o BigMulLimb(Tail(a), s, p \div LimbBase)

RECURSIVE BigMul(_, _)
BigMul(a, b) ==
    IF a = <<>> \/ b = <<>> THEN <<>>
    ELSE BigNorm(BigAdd(BigMulLimb(a, b[1], 0), <<0>> \o BigMul(a, Tail(b))))

RECURSIVE BigPow2(_)
BigPow2(k) ==
    IF k >= LimbBits THEN <<0>> \o BigPow2(k - LimbBits) ELSE <<Pow(2, k)>>

RECURSIVE BitLen(_)
BitLen(n) == IF n = 0 THEN 0 ELSE 1 + BitLen(n \div 2)

BigBitLen(a) ==
    IF a = <<>> THEN 0 ELSE (Len(a) - 1) * LimbBits + BitLen(a[Len(a)])

\* bit i (0 the lowest) of a
BigBit(a, i) ==
    IF i \div LimbBits + 1 > Len(a) THEN 0
    ELSE (a[i \div LimbBits + 1] \div Pow(2, i % LimbBits)) % 2

\* The largest digit g + x, x below 2^(j+1), with d * (g + x) <= r
RECURSIVE BigDigit(_, _, _, _)
BigDigit(r, d, j, g) ==
    IF j < 0 THEN g
    ELSE IF BigGeq(r, BigNorm(BigMulLimb(d, g + Pow(2, j), 0)))
    THEN BigDigit(r, d, j - 1, g + Pow(2, j))
    ELSE BigDigit(r, d, j - 1, g)

\* long division from limb i of n downwards: quotient q, remainder r
RECURSIVE BigDivStep(_, _, _, _, _)
BigDivStep(n, d, i, q, r) ==
    IF i < 1 THEN [q |-> BigNorm(q), r |-> r]
    ELSE LET r2 == BigNorm(<<n[i]>> \o r)
             g == BigDigit(r2, d, LimbBits - 1, 0)
         IN BigDivStep(n, d, i - 1, <<g>> \o q,
                       BigSub(r2, BigNorm(BigMulLimb(d, g, 0))))

\* floor(n / d) and n mod d, for d > 0
BigDivMod(n, d) == BigDivStep(n, d, Len(n), <<>>, <<>>)

\* The float nearest to n / d (ties to even), for d > 0: the quotient is
\* computed to MantissaBits + 2 or + 3 bits (scaled by 2^k), cut to
\* MantissaBits bits and rounded on the bits cut off and the remainder.
RoundPack(e, m) ==
    [num |-> BigMul(m, BigPow2(IF e > 0 THEN e ELSE 0)),
     den |-> BigPow2(IF e < 0 THEN -e ELSE 0)]

RoundUp(e, q, low, half, sticky) ==
    RoundPack(e, IF \/ low > half
                    \/ low = half /\ (sticky \/ BigBit(q, 0) = 1)
                 THEN BigAddC(q, <<>>, 1) ELSE q)

RoundCut(e, cut, half, sticky) ==
    RoundUp(e, cut.q, BigToInt(cut.r), half, sticky)

RoundDrop(k, q, drop, sticky) ==
    RoundCut(drop - k, BigDivMod(q, BigPow2(drop)), Pow(2, drop - 1), sticky)

RoundQuotient(k, dm) ==
    RoundDrop(k, dm.q, BigBitLen(dm.q) - MantissaBits, dm.r # <<>>)

RoundScaled(n, d, k) ==
    RoundQuotient(k, BigDivMod(BigMul(n, BigPow2(IF k > 0 THEN k ELSE 0)),
                               BigMul(d, BigPow2(IF k < 0 THEN -k ELSE 0))))

Round(n, d) ==
    IF n = <<>> THEN [num |-> <<>>, den |-> <<1>>]
    ELSE RoundScaled(n, d, MantissaBits + 2 - (BigBitLen(n) - BigBitLen(d)))

\* float(n) for an int n below 2^31
FloatOfInt(n) == [num |-> BigOf(n), den |-> <<1>>]
\* x / y for y # 0, x * y, x >= 1.0 and int(x) on non-negative floats
FloatDiv(x, y) == Round(BigMul(x.num, y.den), BigMul(x.den, y.num))
FloatMul(x, y) == Round(BigMul(x.num, y.num), BigMul(x.den, y.den))
FloatGeqOne(x) == BigGeq(x.num, x.den)
FloatInt(x) == BigToInt(BigDivMod(x.num, x.den).q)

(***************************************************************************)
(* The coordinate mapper of CommonVNCClient.                               *)
(***************************************************************************)
max_dimension == 99900

\* the branch of get_relative_resolution on aspect_ratio
RelativeResolution(aspect_ratio) ==
    IF FloatGeqOne(aspect_ratio)
    THEN [x |-> max_dimension,
          y |-> (FloatInt(FloatDiv(FloatOfInt(max_dimension), aspect_ratio))
                 \div 100) * 100]
    ELSE [x |-> (FloatInt(FloatMul(FloatOfInt(max_dimension), aspect_ratio))
                 \div 100) * 100,
          y |-> max_dimension]

\* get_relative_resolution() for the framebuffer fb
get_relative_resolution(fb) ==
    RelativeResolution(FloatDiv(FloatOfInt(fb.width), FloatOfInt(fb.height)))

\* Mutant of ConvertCoord: round() in place of int().
ConvertCoordRounded(v, rel, size) ==
    LET x == FloatMul(FloatDiv(FloatOfInt(v), FloatOfInt(rel)),
                      FloatOfInt(size))
        twice == BigDivMod(BigMul(x.num, <<2>>), x.den)
        t == BigToInt(twice.q)
    IN IF twice.r = <<>> /\ t % 2 = 1
       THEN (IF ((t - 1) \div 2) % 2 = 0 THEN (t - 1) \div 2 ELSE (t + 1) \div 2)
       ELSE (t + 1) \div 2

\* int((v / rel) * size), for rel # 0
ConvertCoord(v, rel, size) ==
    FloatInt(FloatMul(FloatDiv(FloatOfInt(v), FloatOfInt(rel)),
                      FloatOfInt(size)))

\* the conversion of a point, rel_res being get_relative_resolution():
\* ZeroDivisionError when a relative dimension is 0
ConvertPoint(point, fb, rel_res) ==
    IF rel_res.x = 0 \/ rel_res.y = 0
    THEN [err |-> "ZeroDivisionError", x |-> 0, y |-> 0]
    ELSE [err |-> "none",
          x |-> ConvertCoord(point.x, rel_res.x, fb.width),
          y |-> ConvertCoord(point.y, rel_res.y, fb.height)]

\* _convert_relative_point(point)
convert_relative_point(point, fb) ==
    ConvertPoint(point, fb, get_relative_resolution(fb))

\* the conversion of a rectangle, rel_res being get_relative_resolution()
ConvertRect(r, fb, rel_res) ==
    IF rel_res.x = 0 \/ rel_res.y = 0
    THEN [err |-> "ZeroDivisionError", x |-> 0, y |-> 0,
          width |-> 0, height |-> 0]
    ELSE [err |-> "none",
          x |-> ConvertCoord(r.x, rel_res.x, fb.width),
          y |-> ConvertCoord(r.y, rel_res.y, fb.height),
          width |-> ConvertCoord(r.width, rel_res.x, fb.width),
          height |-> ConvertCoord(r.height, rel_res.y, fb.height)]

\* _convert_relative_rect(rect)
convert_relative_rect(r, fb) ==
    ConvertRect(r, fb, get_relative_resolution(fb))


(***************************************************************************)
(* The framebuffer loop: SyncVNCClient.capture / AsyncVNCClient.capture.   *)
(* pixels maps a cell <<y, x>> to its four bytes.                          *)
(***************************************************************************)
MaxRects == 2       \* most rectangles in one FramebufferUpdate of the server
MaxText == 1        \* longest ServerCutText text
MaxChunks == 4      \* most pieces (headers, rectangles, cut texts) per capture
MaxCaptures == 2    \* most capture calls of one session
SizeCap == 1000000  \* a read longer than this never completes in the model

Cells(fb) == (0..(fb.height - 1)) \X (0..(fb.width - 1))

\* slice_rect(rect): the cells pixels[y:y+height, x:x+width] addresses; numpy
\* clips a slice at the edge of the array
slice_rect(r, fb) ==
    {c \in Cells(fb) : /\ r.y <= c[1] /\ c[1] < r.y + r.height
                       /\ r.x <= c[2] /\ c[2] < r.x + r.width}

ClipLen(lo, len, size) ==
    Cardinality({i \in 0..(size - 1) : lo <= i /\ i < lo + len})

\* Mutant of ZeroPixels: the buffer of the capture before is used again.
ZeroPixelsReused(fb) ==
    IF pixels = <<>> THEN [c \in Cells(fb) |-> <<0, 0, 0, 0>>] ELSE pixels

\* np.zeros((self.rect.height, self.rect.width, 4), 'B')
ZeroPixels(fb) == [c \in Cells(fb) |-> <<0, 0, 0, 0>>]

\* height * width * 4, the length of a Raw rectangle
RawLen(r) ==
    IF r.width = 0 \/ r.height = 0 THEN 0
    ELSE IF r.width > SizeCap \div (4 * r.height) THEN SizeCap
    ELSE r.height * r.width * 4

\* Mutant of ZDecompress: a new decompressobj for every rectangle.
ZDecompressFresh(state, payload) ==
    IF payload = <<>> THEN [out |-> <<>>, state |-> 0, bad |-> FALSE]
    ELSE IF payload[1] # 0
    THEN [out |-> <<>>, state |-> 0, bad |-> TRUE]
    ELSE [out |-> [i \in 1..(Len(payload) - 1) |-> payload[i + 1]],
          state |-> 1, bad |-> FALSE]

\* self.decompress(area): the session's zlib stream decoder.  The stream is
\* represented by its position (the number of blocks decoded); a block
\* carries the position it was produced at followed by its data shifted by
\* that position, so that a block decodes only at the position it was
\* produced for.  "bad" stands for zlib.error.
ZDecompress(state, payload) ==
    IF payload = <<>> THEN [out |-> <<>>, state |-> state, bad |-> FALSE]
    ELSE IF payload[1] # state
    THEN [out |-> <<>>, state |-> state, bad |-> TRUE]
    ELSE [out |-> [i \in 1..(Len(payload) - 1) |->
                      (payload[i + 1] + 256 - state) % 256],
          state |-> state + 1, bad |-> FALSE]

\* The server's compressor of the same stream.
ZCompress(state, data) ==
    <<state>> \o [i \in 1..Len(data) |-> (data[i] + state) % 256]

\* np.ndarray((h, w, 4), 'B', area) and pixels[slice_rect(area_rect)] = area:
\* the assignment broadcasts, so each dimension of area must equal that of
\* the clipped slice or be 1
AssignFits(r, fb) ==
    /\ r.height = ClipLen(r.y, r.height, fb.height) \/ r.height = 1
    /\ r.width = ClipLen(r.x, r.width, fb.width) \/ r.width = 1

AreaPixel(area, r, c) ==
    LET i == IF r.height = 1 THEN 0 ELSE c[1] - r.y
        j == IF r.width = 1 THEN 0 ELSE c[2] - r.x
        at == 4 * (i * r.width + j)
    IN SubSeq(area, at + 1, at + 4)

\* Mutant of WriteRect: the alpha byte sent by the server is kept.
WriteRectKeepAlpha(px, r, area, fb) ==
    [c \in Cells(fb) |->
        IF c \in slice_rect(r, fb) THEN AreaPixel(area, r, c) ELSE px[c]]

\* pixels[slice_rect(area_rect)] = area; pixels[slice_rect(area_rect, 3)] = 255
WriteRect(px, r, area, fb) ==
    [c \in Cells(fb) |->
        IF c \in slice_rect(r, fb)
        THEN <<AreaPixel(area, r, c)[1], AreaPixel(area, r, c)[2],
               AreaPixel(area, r, c)[3], 255>>
        ELSE px[c]]

\* Mutant of RegionCovered: any() in place of all().
RegionCoveredAny(px, rg, fb) ==
    \/ slice_rect(rg, fb) = {}
    \/ \E c \in slice_rect(rg, fb) : px[c][4] # 0

\* pixels[slice_rect(rect, 3)].all()
RegionCovered(px, rg, fb) == \A c \in slice_rect(rg, fb) : px[c][4] # 0

\* pixels[slice_rect(rect)]: the rows of the requested region
Crop(px, rg, fb) ==
    [i \in 1..ClipLen(rg.y, rg.height, fb.height) |->
        [j \in 1..ClipLen(rg.x, rg.width, fb.width) |->
            px[<<rg.y + i - 1, rg.x + j - 1>>]]]

\* The bytes one pass of the while loop reads up to the rectangles: the type,
\* then for type 2 a 4-byte length and that many bytes, for type 0 one
\* padding byte and the 2-byte count.
MessageNeed(buf) ==
    IF Len(buf) < 1 THEN 1
    ELSE IF buf[1] = MSG_TYPE_CLIPBOARD
    THEN IF Len(buf) < 5 THEN 5 ELSE 5 + ReadInt(buf, 1, 4)
    ELSE IF buf[1] = MSG_TYPE_FRAMEBUFFER_UPDATE THEN 4
    ELSE 1

RectOf(buf) ==
    [x |-> ReadInt(buf, 0, 2), y |-> ReadInt(buf, 2, 2),
     width |-> ReadInt(buf, 4, 2), height |-> ReadInt(buf, 6, 2)]

\* The bytes one pass of the for loop reads: the 12-byte header, then
\* height * width * 4 bytes (Raw) or a 4-byte length and that many (zlib).
RectNeed(buf) ==
    IF Len(buf) < 12 THEN 12
    ELSE LET area_encoding == ReadInt(buf, 8, 4) IN
         IF area_encoding = ENCODING_RAW THEN 12 + RawLen(RectOf(buf))
         ELSE IF area_encoding = ENCODING_ZLIB
         THEN IF Len(buf) < 16 THEN 16 ELSE 16 + ReadInt(buf, 12, 4)
         ELSE 12

\* marks after the client has read n bytes
Shift(ms, n) == {m - n : m \in {k \in ms : k >= n}}

\* The region test after the last rectangle of a message, and the return.
EndOfMessage(px) ==
    IF RegionCovered(px, region, rect)
    THEN /\ pc' = "RETURNED"
         /\ result' = Crop(px, region, rect)
    ELSE /\ pc' = "MSG"
         /\ result' = result

\* The rectangles inside a framebuffer: every non-empty one, and one empty.
RectsInside(fb) ==
    {r \in [x : 0..fb.width, y : 0..fb.height,
            width : 0..fb.width, height : 0..fb.height] :
        /\ r.x + r.width <= fb.width
        /\ r.y + r.height <= fb.height
        /\ (r.width = 0 \/ r.height = 0) => r = NoRect}

\* a region given in relative coordinates
RelRects == {[x |-> 49950, y |-> 0, width |-> 49950, height |-> 49950]}

\* The arguments of capture: no region, a Rect in pixels inside the
\* framebuffer, the same handed over by a RectLike object, and a Rect or a
\* RectLike in relative coordinates with relative=True.
CaptureArgs(fb) ==
    [kind : {"None"}, rect : {NoRect}, relative : BOOLEAN]
    \cup [kind : {"Rect"}, rect : RectsInside(fb), relative : {FALSE}]
    \cup [kind : {"RectLike"},
          rect : {[x |-> 0, y |-> 0, width |-> 1, height |-> 1]},
          relative : {FALSE}]
    \cup [kind : {"Rect", "RectLike"}, rect : RelRects, relative : {TRUE}]

\* the Rect returned by _convert_relative_rect
PlainRect(c) == [x |-> c.x, y |-> c.y, width |-> c.width, height |-> c.height]

\* the if / elif chain at the head of capture: the rectangle requested
RequestedRect(arg, fb) ==
    IF arg.kind = "None"
    THEN [x |-> 0, y |-> 0, width |-> fb.width, height |-> fb.height]
    ELSE IF arg.kind = "RectLike" THEN arg.rect
    ELSE IF arg.relative
    THEN PlainRect(convert_relative_rect(arg.rect, fb))
    ELSE arg.rect

\* Mutant of CaptureRequest: capture keeps its relative argument as the
\* session's relative mode.
CaptureRequestSetsRelative ==
    /\ pc \in {"INIT_READY", "RETURNED"}
    /\ calls < MaxCaptures
    /\ \E arg \in {a \in CaptureArgs(rect) : a.relative => calls = 0} :
       \E rg \in {RequestedRect(arg, rect)} :
           /\ request' = arg
           /\ relative_mode' = IF arg.relative THEN "true" ELSE "false"
           /\ region' = rg
           /\ sent' = <<3, 0>> \o ToBytes(rg.x, 2) \o ToBytes(rg.y, 2)
                      \o ToBytes(rg.width, 2) \o ToBytes(rg.height, 2)
    /\ pixels' = ZeroPixels(rect)
    /\ written' = {}
    /\ result' = <<>>
    /\ remaining' = 0
    /\ nread' = 0
    /\ calls' = calls + 1
    /\ pc' = "MSG"
    /\ srv' = [srv EXCEPT !.chunks = 0, !.covered = {}, !.done = FALSE,
                          !.last = [c \in Cells(rect) |-> 0]]
    /\ UNCHANGED <<twin, tasks, variant, cfg, err, reason, inbuf, sockOpen, auth_type,
                   rect,
                   zdec, marks, frames, exc, outcome, mouse_position,
                   mouse_buttons>>

\* capture(rect, relative=...): the request is written and the buffer
\* allocated.  Regions in relative coordinates are passed to the first
\* capture of a session.
CaptureRequest ==
    /\ pc \in {"INIT_READY", "RETURNED"}
    /\ calls < MaxCaptures
    /\ \E arg \in {a \in CaptureArgs(rect) : a.relative => calls = 0} :
       \E rg \in {RequestedRect(arg, rect)} :
           /\ request' = arg
           /\ region' = rg
           /\ sent' = <<3, 0>> \o ToBytes(rg.x, 2) \o ToBytes(rg.y, 2)
                      \o ToBytes(rg.width, 2) \o ToBytes(rg.height, 2)
    /\ pixels' = ZeroPixels(rect)
    /\ written' = {}
    /\ result' = <<>>
    /\ remaining' = 0
    /\ nread' = 0
    /\ calls' = calls + 1
    /\ pc' = "MSG"
    /\ srv' = [srv EXCEPT !.chunks = 0, !.covered = {}, !.done = FALSE,
                          !.last = [c \in Cells(rect) |-> 0]]
    /\ UNCHANGED <<twin, tasks, variant, cfg, err, reason, inbuf, sockOpen, auth_type,
                   rect,
                   zdec, marks, frames, exc, outcome, mouse_position,
                   mouse_buttons, relative_mode>>

\* Mutant of MessageStep: a message of another type is skipped.
MessageStepSkipUnknown(buf, ms) ==
    /\ inbuf' = Drop(buf, MessageNeed(buf))
    /\ marks' = Shift(ms, MessageNeed(buf))
    /\ LET update_type == buf[1] IN
       IF update_type = MSG_TYPE_FRAMEBUFFER_UPDATE
       THEN /\ remaining' = ReadInt(buf, 2, 2)
            /\ IF ReadInt(buf, 2, 2) = 0
               THEN EndOfMessage(pixels)
               ELSE pc' = "RECT" /\ result' = result
            /\ UNCHANGED <<err, reason>>
       ELSE UNCHANGED <<pc, err, reason, remaining, result>>
    /\ UNCHANGED <<pixels, zdec, written>>

\* update_type = read_int(sock, 1) and the branch on it, up to the for
\* loop, on the unread bytes buf (whose message starts are ms)
MessageStep(buf, ms) ==
    /\ inbuf' = Drop(buf, MessageNeed(buf))
    /\ marks' = Shift(ms, MessageNeed(buf))
    /\ LET update_type == buf[1] IN
       IF update_type = MSG_TYPE_CLIPBOARD
       THEN UNCHANGED <<pc, err, reason, remaining, result>>
       ELSE IF update_type = MSG_TYPE_FRAMEBUFFER_UPDATE
       THEN /\ remaining' = ReadInt(buf, 2, 2)
            /\ IF ReadInt(buf, 2, 2) = 0
               THEN EndOfMessage(pixels)
               ELSE pc' = "RECT" /\ result' = result
            /\ UNCHANGED <<err, reason>>
       ELSE /\ Fail("UnknownMessageType", <<update_type>>)
            /\ UNCHANGED <<remaining, result>>
    /\ UNCHANGED <<pixels, zdec, written>>

\* One pass of the for loop on the unread bytes buf: a rectangle is read,
\* decoded and written, and after the last one of the message the region is
\* tested.
RectStep(buf, ms) ==
    /\ inbuf' = Drop(buf, RectNeed(buf))
    /\ marks' = Shift(ms, RectNeed(buf))
    /\ LET area_rect == RectOf(buf)
           area_encoding == ReadInt(buf, 8, 4)
           z == ZDecompress(zdec, SubSeq(buf, 17, RectNeed(buf)))
           area == IF area_encoding = ENCODING_RAW
                   THEN SubSeq(buf, 13, RectNeed(buf))
                   ELSE z.out
           px == WriteRect(pixels, area_rect, area, rect)
           bad == IF area_encoding \notin {ENCODING_RAW, ENCODING_ZLIB}
                  THEN "UnsupportedEncoding"
                  ELSE IF area_encoding = ENCODING_ZLIB /\ z.bad
                  THEN "ZlibError"
                  ELSE IF Len(area) < RawLen(area_rect) THEN "BufferTooSmall"
                  ELSE IF ~AssignFits(area_rect, rect) THEN "ShapeMismatch"
                  ELSE "none"
       IN /\ zdec' = IF area_encoding = ENCODING_ZLIB THEN z.state ELSE zdec
          /\ IF bad # "none"
             THEN /\ Fail(bad, <<>>)
                  /\ UNCHANGED <<pixels, written, remaining, result>>
             ELSE /\ pixels' = px
                  /\ written' = written \cup slice_rect(area_rect, rect)
                  /\ remaining' = remaining - 1
                  /\ IF remaining = 1
                     THEN EndOfMessage(px)
                     ELSE pc' = "RECT" /\ result' = result
                  /\ UNCHANGED <<err, reason>>

\* The step of capture that the unread bytes buf allow, if any: a read that
\* has its bytes returns, one that has not keeps waiting.
CaptureStep(buf, ms) ==
    IF pc = "MSG" /\ Len(buf) >= MessageNeed(buf) THEN MessageStep(buf, ms)
    ELSE IF pc = "RECT" /\ Len(buf) >= RectNeed(buf) THEN RectStep(buf, ms)
    ELSE /\ inbuf' = buf
         /\ marks' = ms
         /\ UNCHANGED <<pc, err, reason, remaining, result, pixels, zdec,
                        written>>

\* capture goes on with bytes that have already arrived.
CaptureMessage ==
    /\ pc = "MSG"
    /\ ReadOutcome(MessageNeed(inbuf)) = "ok"
    /\ MessageStep(inbuf, marks)
    /\ UNCHANGED <<variant, cfg, sent, nread, sockOpen, auth_type, rect, srv,
                   region, request, inVars>>

CaptureRect ==
    /\ pc = "RECT"
    /\ ReadOutcome(RectNeed(inbuf)) = "ok"
    /\ RectStep(inbuf, marks)
    /\ UNCHANGED <<variant, cfg, sent, nread, sockOpen, auth_type, rect, srv,
                   region, request, inVars>>

(***************************************************************************)
(* The peer during capture.  The server writes its messages in pieces (a   *)
(* FramebufferUpdate header, one rectangle, a ServerCutText), each when    *)
(* the client waits for bytes, and the waiting read of the client returns  *)
(* in the same step if the piece completes it: what the client does is a   *)
(* function of the byte stream alone, so nothing is lost by not letting    *)
(* the server run ahead.  Rectangles lie inside the framebuffer.           *)
(***************************************************************************)
Colours == {1, 2}

\* The pixels of a rectangle painted with colour col, row by row: the red
\* byte is the colour, green and blue are the cell's row and column, and
\* alpha is whatever the server likes (0 for colour 1, 9 for colour 2).
RectData(r, col) ==
    [k \in 1..(4 * r.width * r.height) |->
        LET p == (k - 1) \div 4
            comp == (k - 1) % 4
        IN CASE comp = 0 -> col
             [] comp = 1 -> r.y + (p \div r.width)
             [] comp = 2 -> r.x + (p % r.width)
             [] OTHER -> IF col = 1 THEN 0 ELSE 9]

ClientWaits ==
    \/ pc = "MSG" /\ ReadOutcome(MessageNeed(inbuf)) = "block"
    \/ pc = "RECT" /\ ReadOutcome(RectNeed(inbuf)) = "block"

\* The rectangles of this capture's updates cover the requested region.
SrvCovers(cov) == slice_rect(region, rect) \subseteq cov

SrvMaySend == ClientWaits /\ ~srv.closed /\ srv.chunks < MaxChunks

SrvUpdateHeader ==
    /\ SrvMaySend
    /\ srv.left = 0
    /\ \E count \in 0..MaxRects :
        /\ srv' = [srv EXCEPT !.left = count, !.chunks = @ + 1,
                              !.done = @ \/ (count = 0 /\ SrvCovers(srv.covered))]
        /\ CaptureStep(inbuf \o <<MSG_TYPE_FRAMEBUFFER_UPDATE, 0>>
                             \o ToBytes(count, 2),
                       IF count = 0 THEN marks \cup {Len(inbuf) + 4} ELSE marks)
    /\ UNCHANGED <<variant, cfg, sent, nread, sockOpen, auth_type, rect,
                   region, request, inVars>>

SrvRect ==
    /\ SrvMaySend
    /\ srv.left > 0
    /\ \E r \in RectsInside(rect), enc \in {ENCODING_RAW, ENCODING_ZLIB},
          col \in Colours :
        LET data == RectData(r, col)
            z == ZCompress(srv.zenc, data)
            bytes == ToBytes(r.x, 2) \o ToBytes(r.y, 2) \o ToBytes(r.width, 2)
                     \o ToBytes(r.height, 2) \o ToBytes(enc, 4)
                     \o (IF enc = ENCODING_RAW THEN data
                         ELSE ToBytes(Len(z), 4) \o z)
        IN /\ srv' = [srv EXCEPT !.left = @ - 1, !.chunks = @ + 1,
                                 !.zenc = IF enc = ENCODING_ZLIB THEN @ + 1 ELSE @,
                                 !.covered = @ \cup slice_rect(r, rect),
                                 !.last = [c \in DOMAIN @ |->
                                     IF c \in slice_rect(r, rect)
                                     THEN col ELSE @[c]],
                                 !.done = @ \/ (srv.left = 1 /\
                                     SrvCovers(srv.covered
                                               \cup slice_rect(r, rect)))]
           /\ CaptureStep(inbuf \o bytes,
                          IF srv.left = 1
                          THEN marks \cup {Len(inbuf) + Len(bytes)} ELSE marks)
    /\ UNCHANGED <<variant, cfg, sent, nread, sockOpen, auth_type, rect,
                   region, request, inVars>>

\* ServerCutText: type 2, three padding bytes, a 4-byte length, the text
SrvCutText ==
    /\ SrvMaySend
    /\ srv.left = 0
    /\ \E n \in 0..MaxText :
        /\ srv' = [srv EXCEPT !.chunks = @ + 1, !.cut = TRUE]
        /\ CaptureStep(inbuf \o <<MSG_TYPE_CLIPBOARD, 0, 0, 0>>
                             \o ToBytes(n, 4) \o Text(n),
                       marks \cup {Len(inbuf) + 8 + n})
    /\ UNCHANGED <<variant, cfg, sent, nread, sockOpen, auth_type, rect,
                   region, request, inVars>>

\* Message types and encodings of RFB the client does not implement:
\* SetColourMapEntries (1) and Hextile (5).
OtherTypes == {1}
OtherEncodings == {5}

\* The first byte of a message of another type.
SrvOtherMessage ==
    /\ SrvMaySend
    /\ srv.left = 0
    /\ \E t \in OtherTypes :
        /\ srv' = [srv EXCEPT !.chunks = @ + 1, !.other = TRUE]
        /\ CaptureStep(inbuf \o <<t>>, marks)
    /\ UNCHANGED <<variant, cfg, sent, nread, sockOpen, auth_type, rect,
                   region, request, inVars>>

\* The header of a rectangle in another encoding.
SrvOtherEncoding ==
    /\ SrvMaySend
    /\ srv.left > 0
    /\ \E enc \in OtherEncodings :
        /\ srv' = [srv EXCEPT !.left = @ - 1, !.chunks = @ + 1,
                              !.other = TRUE]
        /\ CaptureStep(inbuf \o ToBytes(0, 2) \o ToBytes(0, 2)
                             \o ToBytes(1, 2) \o ToBytes(1, 2)
                             \o ToBytes(enc, 4), marks)
    /\ UNCHANGED <<variant, cfg, sent, nread, sockOpen, auth_type, rect,
                   region, request, inVars>>

(***************************************************************************)
(* SpecCapture: capture calls on a connected session.  sent holds the      *)
(* bytes written by the latest call.  The two variants of capture are the  *)
(* same statements, and no step below looks at variant: one is explored.   *)
(***************************************************************************)
InitCapture ==
    /\ variant = "sync"
    /\ cfg = [password |-> [set |-> FALSE, bytes |-> <<>>],
              pixel_format |-> "rgba"]
    /\ pc = "INIT_READY"
    /\ err = "none"
    /\ reason = <<>>
    /\ sent = <<>>
    /\ inbuf = <<>>
    /\ nread = 0
    /\ sockOpen = TRUE
    /\ auth_type = AUTH_TYPE_NONE
    /\ rect \in FbSizes
    /\ srv = [SrvStart EXCEPT !.pc = "run", !.fb = rect]
    /\ region = NoRect
    /\ request = NoRequest
    /\ pixels = <<>>
    /\ remaining = 0
    /\ zdec = 0
    /\ result = <<>>
    /\ marks = {0}
    /\ written = {}
    /\ InIdle

NextCapture ==
    \/ CaptureRequest
    \/ CaptureMessage
    \/ CaptureRect
    \/ SrvUpdateHeader
    \/ SrvRect
    \/ SrvCutText
    \/ SrvOtherMessage
    \/ SrvOtherEncoding

SpecCapture == InitCapture /\ [][NextCapture]_vars

(***************************************************************************)
(* Claims about capture, checked under SpecCapture.                        *)
(***************************************************************************)
\* C1: capture returns only after every cell of the requested region was
\* written by a rectangle received during this call, however the server
\* tiles the region (overlapping, repeated, reaching outside the request).
C1_CaptureCompleteness ==
    pc = "RETURNED" =>
        /\ slice_rect(region, rect) \subseteq written
        /\ \A c \in slice_rect(region, rect) : pixels[c][4] = 255

C1_Witness ==
    /\ pc = "RETURNED"
    /\ region = [x |-> 0, y |-> 0, width |-> 2, height |-> 1]
    /\ rect = [width |-> 2, height |-> 2]
    /\ srv.chunks = 4
    /\ written = {<<0, 0>>, <<0, 1>>, <<1, 1>>}
    /\ pixels[<<0, 1>>][1] = 2
    /\ pixels[<<0, 0>>][1] = 1

\* C2: a ServerCutText is read as 3 padding bytes, a 4-byte length and that
\* many text bytes: whenever capture is about to read a message type, the
\* next unread byte is the first byte of a server message, and capture
\* does not wait for more bytes once the server has completed a
\* FramebufferUpdate with the region covered.
C2_CutTextDrained ==
    /\ pc \in {"MSG", "RETURNED"} => 0 \in marks
    /\ srv.done => ~ClientWaits

\* the region lies inside the framebuffer
RegionInside ==
    /\ region.x + region.width <= rect.width
    /\ region.y + region.height <= rect.height

\* C16: capture of a region inside the framebuffer returns region.height
\* rows of region.width cells, and every cell holds the red, green and blue
\* bytes of the last rectangle the server sent over it during this capture
\* and the alpha byte 255, whatever alpha the server sent.
C16_CaptureLastWriteWins ==
    (pc = "RETURNED" /\ RegionInside) =>
        /\ Len(result) = region.height
        /\ \A i \in 1..Len(result) :
            /\ Len(result[i]) = region.width
            /\ \A j \in 1..Len(result[i]) :
                LET c == <<region.y + i - 1, region.x + j - 1>>
                IN /\ srv.last[c] \in Colours
                   /\ result[i][j] = <<srv.last[c], c[1], c[2], 255>>

C16_Witness ==
    /\ pc = "RETURNED"
    /\ rect = [width |-> 2, height |-> 2]
    /\ region = [x |-> 0, y |-> 0, width |-> 2, height |-> 1]
    /\ srv.chunks = 3
    /\ pixels[<<1, 0>>][1] = 1
    /\ pixels[<<1, 1>>][1] = 1
    /\ result = << << <<1, 0, 0, 255>>, <<2, 0, 1, 255>> >> >>

\* C17: capture writes one FramebufferUpdateRequest of 10 bytes, type 3 and
\* incremental 0, before it reads anything: for the full framebuffer when
\* no region is given, for the region converted by the coordinate mapper
\* when relative=True, whether the region is a Rect or a RectLike object,
\* and for the region as given when relative=False.
C17_CaptureRequestSent ==
    calls > 0 =>
        LET given == request.rect
            c == convert_relative_rect(given, rect)
            rg == IF request.kind = "None"
                  THEN [x |-> 0, y |-> 0, width |-> rect.width,
                        height |-> rect.height]
                  ELSE IF request.relative
                  THEN [x |-> c.x, y |-> c.y, width |-> c.width,
                        height |-> c.height]
                  ELSE given
        IN /\ sent = <<3, 0>> \o ToBytes(rg.x, 2) \o ToBytes(rg.y, 2)
                     \o ToBytes(rg.width, 2) \o ToBytes(rg.height, 2)
           /\ region = rg


(***************************************************************************)
(* Scoped holds: hold_key and hold_mouse.  A scope is a frame on the stack *)
(* frames; a scope opened in the body of another lies above it.  A key     *)
(* frame holds the key list, the number n of keys whose _write_key context *)
(* was entered (and so is on the ExitStack), the number r of them already  *)
(* left, and the lengths of sent when the scope was opened (start) and     *)
(* when its exit began (body, -1 before).  A mouse frame holds mask, the  *)
(* relative argument and old_relative.  A scope opened by press, write or  *)
(* click has the body "pass" (pass = TRUE): it does nothing and cannot     *)
(* raise or be suspended.  The operations that call others (click,         *)
(* double_click, scroll_up, scroll_down, press, write) and move are frames *)
(* of kind "op" on the same stack.  In the async variant a drain()         *)
(* after a write may suspend the task, and a suspended task may be         *)
(* cancelled: CancelledError is raised at the await it is suspended in.    *)
(***************************************************************************)
MaxKeys == 2        \* longest key list of a hold_key call
MaxDepth == 2       \* deepest nesting of scopes
MaxHolds == 2       \* most scopes opened in one session

\* key_codes of pyvnc_common.py, restricted to three names: 'a' (0x61),
\* 'A' (0x41) and 'Ctrl' (Control_L, 0xffe3).  Any other name raises
\* KeyError.
key_codes ==
    [k \in {"a", "A", "Ctrl"} |->
        IF k = "a" THEN 97 ELSE IF k = "A" THEN 65 ELSE 65507]
KeyNames == {"a", "Ctrl", "NoSuchKey"}
KeyLists == UNION {[1..k -> KeyNames] : k \in 0..MaxKeys}
Buttons == {0, 2}   \* MOUSE_BUTTON_LEFT, MOUSE_BUTTON_RIGHT

\* Mutant of KeyEvent: an upper-case letter is sent as the lower-case key.
KeyEventLower(down, key) ==
    <<4, down, 0, 0>> \o ToBytes(key_codes[IF key = "A" THEN "a" ELSE key], 4)

\* b'\x04\x01\x00\x00' + data and b'\x04\x00\x00\x00' + data
KeyEvent(down, key) == <<4, down, 0, 0>> \o ToBytes(key_codes[key], 4)

\* the message of _write_mouse
PointerEvent(buttons) ==
    <<5, buttons>> \o ToBytes(mouse_position.x, 2)
                   \o ToBytes(mouse_position.y, 2)

\* 1 << button, buttons | mask and buttons & ~mask
Mask(button) == Pow(2, button)
HasMask(buttons, mask) == (buttons \div mask) % 2 = 1
OrMask(buttons, mask) == IF HasMask(buttons, mask) THEN buttons ELSE buttons + mask
\* Mutant of AndNotMask: the bit is left as it is.
AndNotMaskKeep(buttons, mask) == buttons

AndNotMask(buttons, mask) ==
    IF HasMask(buttons, mask) THEN buttons - mask ELSE buttons

\* getattr(self, '_relative_mode', False)
GetRelativeMode == IF relative_mode = "unset" THEN "false" ELSE relative_mode

KeyFrame(keys, at) ==
    [kind |-> "key", keys |-> keys, n |-> 0, r |-> 0, start |-> at,
     body |-> -1, mask |-> 0, rel |-> "false", old |-> "false",
     pass |-> FALSE, open |-> sockOpen]
MouseFrame(mask, rel, at) ==
    [kind |-> "mouse", keys |-> <<>>, n |-> 0, r |-> 0, start |-> at,
     body |-> -1, mask |-> mask, rel |-> rel, old |-> "false",
     pass |-> FALSE, open |-> sockOpen]

Top == frames[Len(frames)]
Pop(fs) == SubSeq(fs, 1, Len(fs) - 1)
SetTop(fs, f) == [fs EXCEPT ![Len(fs)] = f]
ExitPc(f) == IF f.kind = "key" THEN "KEY_EXIT" ELSE "MOUSE_EXIT"

\* Mutant of ExitStackNext: callbacks run in the order they were pushed.
ExitStackNextFifo(f) == f.keys[f.r + 1]

\* ExitStack.__exit__: the callback to run next is the latest one pushed
\* that has not run yet.
ExitStackNext(f) == f.keys[f.n - f.r]

\* The exit of the scope on top of fs begins (the body returned or an
\* exception e entered the with statement), out being the bytes sent.
BeginExit(fs, e, out) ==
    /\ frames' = SetTop(fs, [fs[Len(fs)] EXCEPT !.body = Len(out)])
    /\ pc' = ExitPc(fs[Len(fs)])
    /\ exc' = e
    /\ outcome' = outcome

\* An exception passes through the operations on top of fs, which have no
\* handler, up to the innermost scope.
RECURSIVE Unwound(_)
Unwound(fs) ==
    IF fs # <<>> /\ fs[Len(fs)].kind = "op" THEN Unwound(Pop(fs)) ELSE fs

\* A scope or operation has ended and fs are the frames around it: without
\* exception the enclosing body or operation (or the caller) goes on, with
\* an exception e the enclosing scope begins its exit or the caller
\* receives e.
EndScope(fs, e, out) ==
    LET to == IF e = "none" THEN fs ELSE Unwound(fs)
    IN IF to = <<>>
       THEN /\ frames' = <<>>
            /\ pc' = "INIT_READY"
            /\ exc' = e
            /\ outcome' = IF e = "none" THEN "returned" ELSE e
       ELSE IF e = "none"
       THEN /\ frames' = to
            /\ pc' = IF to[Len(to)].kind = "op" THEN "OP" ELSE "BODY"
            /\ exc' = e
            /\ outcome' = outcome
       ELSE BeginExit(to, e, out)

holdFixed == <<variant, cfg, err, reason, inbuf, nread, sockOpen, auth_type,
               rect, srv, capVars, mouse_position, twin, tasks>>

\* A scope may be opened by the caller or in the body of a scope.
MayOpen ==
    /\ pc \in {"INIT_READY", "BODY"}
    /\ pc = "INIT_READY" => frames = <<>>
    /\ pc = "BODY" => ~Top.pass
    /\ Len(frames) < MaxDepth
    /\ calls < MaxHolds

\* sent holds the bytes written since the caller's latest operation began.
SentAtOpen == IF frames = <<>> THEN <<>> ELSE sent

\* A write on a closed session: sock.sendall raises OSError (bad file
\* descriptor); writer.write drops the bytes and the drain() after it raises
\* ConnectionResetError.
WriteError == IF variant = "sync" THEN "OSError" ELSE "ConnectionResetError"

\* await writer.drain(): returns at once, or (async only) suspends the task
Suspends == IF variant = "async" THEN {FALSE, TRUE} ELSE {FALSE}


\* hold_key(*keys) is entered above the frames fs, with the body "pass" or
\* a body of the caller: with ExitStack() as stack
EnterHoldKey(fs, keys, pass) ==
    /\ frames' = Append(fs, [KeyFrame(keys, Len(SentAtOpen))
                                 EXCEPT !.pass = pass])
    /\ pc' = IF keys = <<>> THEN "BODY" ELSE "KEY_ENTER"
    /\ sent' = SentAtOpen
    /\ exc' = "none"
    /\ outcome' = IF frames = <<>> THEN "none" ELSE outcome
    /\ UNCHANGED <<mouse_buttons, relative_mode>>

\* the caller enters a hold_key scope
HoldKey ==
    /\ MayOpen
    /\ \E keys \in KeyLists : EnterHoldKey(frames, keys, FALSE)
    /\ calls' = calls + 1
    /\ UNCHANGED holdFixed

\* stack.enter_context returned: the key is on the stack, and after the
\* last key hold_key yields to the body
Entered ==
    /\ frames' = SetTop(frames, [Top EXCEPT !.n = @ + 1])
    /\ pc' = IF Top.n + 1 = Len(Top.keys) THEN "BODY" ELSE "KEY_ENTER"
    /\ UNCHANGED <<exc, outcome>>

\* Mutant of EnterKey: an unknown key counts as pressed and writes nothing.
EnterKeySkipUnknown ==
    /\ pc = "KEY_ENTER"
    /\ LET key == Top.keys[Top.n + 1] IN
       /\ sent' = IF key \in DOMAIN key_codes
                  THEN sent \o KeyEvent(1, key) ELSE sent
       /\ Entered
    /\ UNCHANGED <<holdFixed, mouse_buttons, relative_mode, calls>>


\* stack.enter_context(self._write_key(key)): key_codes[key] is looked up
\* and the press written (and flushed, async)
EnterKey ==
    /\ pc = "KEY_ENTER"
    /\ LET key == Top.keys[Top.n + 1] IN
       IF key \notin DOMAIN key_codes
       THEN /\ sent' = sent
            /\ BeginExit(frames, "KeyError", sent)
       ELSE IF ~sockOpen
       THEN /\ sent' = sent
            /\ BeginExit(frames, WriteError, sent)
       ELSE /\ sent' = sent \o KeyEvent(1, key)
            /\ \E s \in Suspends :
                IF s THEN /\ pc' = "KEY_PRESS_DRAIN"
                          /\ UNCHANGED <<frames, exc, outcome>>
                ELSE Entered
    /\ UNCHANGED <<holdFixed, mouse_buttons, relative_mode, calls>>

\* the drain() after the press returns
PressDrained ==
    /\ pc = "KEY_PRESS_DRAIN"
    /\ Entered
    /\ UNCHANGED <<holdFixed, sent, mouse_buttons, relative_mode, calls>>

\* the body of the innermost scope ends normally
BodyReturn ==
    /\ pc = "BODY"
    /\ BeginExit(frames, "none", sent)
    /\ UNCHANGED <<holdFixed, sent, mouse_buttons, relative_mode, calls>>

\* the body of the innermost scope raises an error
BodyRaise ==
    /\ pc = "BODY"
    /\ ~Top.pass
    /\ BeginExit(frames, "BodyError", sent)
    /\ UNCHANGED <<holdFixed, sent, mouse_buttons, relative_mode, calls>>

\* the finally of one _write_key: the release is written (and flushed)
ExitKey ==
    /\ pc = "KEY_EXIT"
    /\ Top.r < Top.n
    /\ IF ~sockOpen
       THEN /\ sent' = sent
            /\ exc' = WriteError
            /\ pc' = "KEY_EXIT"
            /\ frames' = SetTop(frames, [Top EXCEPT !.r = @ + 1])
       ELSE /\ sent' = sent \o KeyEvent(0, ExitStackNext(Top))
            /\ exc' = exc
            /\ \E s \in Suspends :
                IF s THEN pc' = "KEY_RELEASE_DRAIN" /\ frames' = frames
                ELSE /\ pc' = "KEY_EXIT"
                     /\ frames' = SetTop(frames, [Top EXCEPT !.r = @ + 1])
    /\ UNCHANGED <<holdFixed, outcome, mouse_buttons, relative_mode, calls>>

\* the drain() after the release returns
ReleaseDrained ==
    /\ pc = "KEY_RELEASE_DRAIN"
    /\ pc' = "KEY_EXIT"
    /\ frames' = SetTop(frames, [Top EXCEPT !.r = @ + 1])
    /\ UNCHANGED <<holdFixed, sent, exc, outcome, mouse_buttons,
                   relative_mode, calls>>

\* every callback of the ExitStack has run: hold_key is left
HoldKeyEnd ==
    /\ pc = "KEY_EXIT"
    /\ Top.r = Top.n
    /\ EndScope(Pop(frames), exc, sent)
    /\ UNCHANGED <<holdFixed, sent, mouse_buttons, relative_mode, calls>>

\* hold_mouse(button, relative=...) up to its yield: the mask is set and
\* the pointer message written before the try block is entered
EnterHoldMouse(fs, button, relative, pass) ==
    IF ~sockOpen
    THEN /\ mouse_buttons' = OrMask(mouse_buttons, Mask(button))
         /\ sent' = SentAtOpen
         /\ relative_mode' = relative_mode
         /\ EndScope(fs, WriteError, SentAtOpen)
    ELSE
    /\ \E s \in Suspends :
        LET mask == Mask(button)
            fr == [MouseFrame(mask, relative, Len(SentAtOpen))
                       EXCEPT !.pass = pass]
        IN /\ mouse_buttons' = OrMask(mouse_buttons, mask)
           /\ sent' = SentAtOpen \o PointerEvent(OrMask(mouse_buttons, mask))
           /\ IF s
              THEN /\ frames' = Append(fs, fr)
                   /\ pc' = "MOUSE_PRESS_DRAIN"
                   /\ relative_mode' = relative_mode
              ELSE /\ frames' = Append(fs, [fr EXCEPT !.old = GetRelativeMode])
                   /\ pc' = "BODY"
                   /\ relative_mode' = relative
    /\ exc' = "none"
    /\ outcome' = IF frames = <<>> THEN "none" ELSE outcome

\* the caller enters a hold_mouse scope
HoldMouse ==
    /\ MayOpen
    /\ \E button \in Buttons, relative \in {"false", "true"} :
        EnterHoldMouse(frames, button, relative, FALSE)
    /\ calls' = calls + 1
    /\ UNCHANGED holdFixed

\* the drain() of the press returns: try, old_relative, yield
MousePressDrained ==
    /\ pc = "MOUSE_PRESS_DRAIN"
    /\ frames' = SetTop(frames, [Top EXCEPT !.old = GetRelativeMode])
    /\ relative_mode' = Top.rel
    /\ pc' = "BODY"
    /\ UNCHANGED <<holdFixed, sent, exc, outcome, mouse_buttons, calls>>

\* the finally of hold_mouse: mask cleared, pointer message written, and
\* after the flush _relative_mode restored
ExitMouse ==
    /\ pc = "MOUSE_EXIT"
    /\ mouse_buttons' = AndNotMask(mouse_buttons, Top.mask)
    /\ IF ~sockOpen
       THEN /\ sent' = sent
            /\ relative_mode' = relative_mode
            /\ EndScope(Pop(frames), WriteError, sent)
       ELSE
       /\ sent' = sent \o PointerEvent(AndNotMask(mouse_buttons, Top.mask))
       /\ \E s \in Suspends :
           IF s THEN /\ pc' = "MOUSE_RELEASE_DRAIN"
                     /\ UNCHANGED <<frames, exc, outcome, relative_mode>>
           ELSE /\ relative_mode' = Top.old
                /\ EndScope(Pop(frames), exc,
                            sent \o PointerEvent(AndNotMask(mouse_buttons,
                                                            Top.mask)))
    /\ UNCHANGED <<holdFixed, calls>>

MouseReleaseDrained ==
    /\ pc = "MOUSE_RELEASE_DRAIN"
    /\ relative_mode' = Top.old
    /\ EndScope(Pop(frames), exc, sent)
    /\ UNCHANGED <<holdFixed, sent, mouse_buttons, calls>>

\* task.cancel() while the task is suspended (async): CancelledError is
\* raised at the await.  At the flush of a press the await lies before the
\* try block, so no finally of that context runs; at the flush of a release
\* it lies inside the finally, after the write.
Cancel ==
    /\ variant = "async"
    /\ exc # "Cancelled"
    /\ pc \in {"BODY", "KEY_PRESS_DRAIN", "KEY_RELEASE_DRAIN",
               "MOUSE_PRESS_DRAIN", "MOUSE_RELEASE_DRAIN", "MOVE_DRAIN"}
    /\ pc = "BODY" => ~Top.pass
    /\ CASE pc \in {"BODY", "KEY_PRESS_DRAIN"} ->
                BeginExit(frames, "Cancelled", sent)
         [] pc = "KEY_RELEASE_DRAIN" ->
                /\ frames' = SetTop(frames, [Top EXCEPT !.r = @ + 1])
                /\ pc' = "KEY_EXIT"
                /\ exc' = "Cancelled"
                /\ outcome' = outcome
         [] OTHER -> EndScope(Pop(frames), "Cancelled", sent)
    /\ UNCHANGED <<holdFixed, sent, mouse_buttons, relative_mode, calls>>

\* (the field open of a frame tells whether the session was open when the
\* scope or operation began)

(***************************************************************************)
(* move and the operations built from the scopes: click, double_click,     *)
(* scroll_up, scroll_down, press and write.  An operation in progress is a *)
(* frame of kind "op" with its name and arguments, the number i of calls   *)
(* it has made, and the length of sent, the button mask and the pointer    *)
(* position when it began.                                                 *)
(***************************************************************************)
MaxRepeat == 2      \* largest repeat count of scroll_up / scroll_down
MOUSE_BUTTON_SCROLL_UP == 3
MOUSE_BUTTON_SCROLL_DOWN == 4

MovePoints == {[x |-> 1, y |-> 0], [x |-> 49950, y |-> 33300]}
Texts == UNION {[1..k -> {"a", "A"}] : k \in 0..MaxKeys}

Op(name, button, rel, n, keys) ==
    [name |-> name, button |-> button, rel |-> rel, n |-> n, keys |-> keys]

\* the operations the caller may start
Ops ==
    {Op(nm, b, rel, 0, <<>>) : nm \in {"click", "double_click"},
                               b \in Buttons, rel \in {"false", "true"}}
    \cup {Op(nm, 0, "false", n, <<>>) : nm \in {"scroll_up", "scroll_down"},
                                        n \in 0..MaxRepeat}
    \cup {Op("press", 0, "false", 0, keys) : keys \in KeyLists}
    \cup {Op("write", 0, "false", 0, text) : text \in Texts}

\* Mutant of OpLimit: every operation makes one call.
OpLimitOnce(op) == IF op.name \in {"scroll_up", "scroll_down"} /\ op.n = 0
                   THEN 0 ELSE IF op.name = "write" /\ op.keys = <<>> THEN 0
                   ELSE 1

\* the number of calls an operation makes
OpLimit(op) ==
    CASE op.name \in {"scroll_up", "scroll_down"} -> op.n
      [] op.name = "double_click" -> 2
      [] op.name = "write" -> Len(op.keys)
      [] OTHER -> 1

\* the number of scopes an operation opens
OpCost(op) == OpLimit(op)

OpFrame(op, at) ==
    [kind |-> "op", name |-> op.name, button |-> op.button, rel |-> op.rel,
     n |-> op.n, keys |-> op.keys, i |-> 0, start |-> at,
     mask0 |-> mouse_buttons, pos0 |-> mouse_position, open |-> sockOpen]

\* Mutant of MoveEvent: no message when the pointer is already there.
MoveEventSuppressed(buttons, x, y) ==
    IF mouse_position = [x |-> x, y |-> y] THEN <<>>
    ELSE <<5, buttons>> \o ToBytes(x, 2) \o ToBytes(y, 2)

\* the message _write_mouse writes for move, the pointer being at (x, y)
MoveEvent(buttons, x, y) == <<5, buttons>> \o ToBytes(x, 2) \o ToBytes(y, 2)

\* The caller (or the body of a scope) may start an operation.
MayCall ==
    /\ pc \in {"INIT_READY", "BODY"}
    /\ pc = "INIT_READY" => frames = <<>>
    /\ pc = "BODY" => ~Top.pass
    /\ Len(frames) < MaxDepth

\* move(point, relative=...): the point is converted if asked for or if a
\* hold_mouse scope set _relative_mode, stored, and one pointer message
\* written (and flushed)
Move ==
    /\ MayCall
    /\ calls < MaxHolds
    /\ \E point \in MovePoints, relative \in BOOLEAN :
       \E c \in {IF relative \/ GetRelativeMode = "true"
                 THEN convert_relative_point(point, rect)
                 ELSE [err |-> "none", x |-> point.x, y |-> point.y]} :
        LET fr == [OpFrame(Op("move", 0, IF relative THEN "true" ELSE "false",
                              0, <<>>), Len(SentAtOpen))
                       EXCEPT !.keys = <<point.x, point.y>>]
        IN IF c.err # "none"
           THEN /\ sent' = SentAtOpen
                /\ mouse_position' = mouse_position
                /\ EndScope(frames, c.err, SentAtOpen)
           ELSE IF ~sockOpen
           THEN /\ mouse_position' = [x |-> c.x, y |-> c.y]
                /\ sent' = SentAtOpen
                /\ EndScope(frames, WriteError, SentAtOpen)
           ELSE /\ mouse_position' = [x |-> c.x, y |-> c.y]
                /\ sent' = SentAtOpen \o MoveEvent(mouse_buttons, c.x, c.y)
                /\ exc' = "none"
                /\ outcome' = IF frames = <<>> THEN "none" ELSE outcome
                /\ \E s \in Suspends :
                    IF s THEN /\ pc' = "MOVE_DRAIN"
                              /\ frames' = Append(frames, fr)
                    ELSE /\ pc' = "OP"
                         /\ frames' = Append(frames, [fr EXCEPT !.i = 1])
    /\ calls' = calls + 1
    /\ UNCHANGED <<twin, tasks, variant, cfg, err, reason, inbuf, nread, sockOpen,
                   auth_type, rect, srv, capVars, mouse_buttons,
                   relative_mode>>

\* the drain() of move's pointer message returns
MoveDrained ==
    /\ pc = "MOVE_DRAIN"
    /\ pc' = "OP"
    /\ frames' = SetTop(frames, [Top EXCEPT !.i = 1])
    /\ UNCHANGED <<holdFixed, sent, exc, outcome, mouse_buttons,
                   relative_mode, calls>>

\* click, double_click, scroll_up, scroll_down, press or write is called
OpCall ==
    /\ MayCall
    /\ \E op \in Ops :
        /\ calls + OpCost(op) <= MaxHolds
        /\ frames' = Append(frames, OpFrame(op, Len(SentAtOpen)))
        /\ calls' = calls + OpCost(op)
    /\ pc' = "OP"
    /\ sent' = SentAtOpen
    /\ exc' = "none"
    /\ outcome' = IF frames = <<>> THEN "none" ELSE outcome
    /\ UNCHANGED <<holdFixed, mouse_buttons, relative_mode>>

\* the operation on top makes its next call: click enters hold_mouse with
\* the body pass, double_click and the scrolls call click, press enters
\* hold_key(*keys) and write hold_key(key) for the next character
OpStep ==
    /\ pc = "OP"
    /\ Top.i < OpLimit(Top)
    /\ LET fs == SetTop(frames, [Top EXCEPT !.i = @ + 1])
           inner == CASE Top.name = "scroll_up" ->
                             Op("click", MOUSE_BUTTON_SCROLL_UP, "false", 0, <<>>)
                      [] Top.name = "scroll_down" ->
                             Op("click", MOUSE_BUTTON_SCROLL_DOWN, "false", 0, <<>>)
                      [] OTHER -> Op("click", Top.button, Top.rel, 0, <<>>)
       IN CASE Top.name = "click" ->
                   EnterHoldMouse(fs, Top.button, Top.rel, TRUE)
            [] Top.name = "press" -> EnterHoldKey(fs, Top.keys, TRUE)
            [] Top.name = "write" ->
                   EnterHoldKey(fs, <<Top.keys[Top.i + 1]>>, TRUE)
            [] OTHER ->
                   /\ frames' = Append(fs, OpFrame(inner, Len(sent)))
                   /\ pc' = "OP"
                   /\ UNCHANGED <<sent, exc, outcome, mouse_buttons,
                                  relative_mode>>
    /\ UNCHANGED <<holdFixed, calls>>

\* the operation on top has made all its calls: return self
OpReturn ==
    /\ pc = "OP"
    /\ Top.i = OpLimit(Top)
    /\ EndScope(Pop(frames), "none", sent)
    /\ UNCHANGED <<holdFixed, sent, mouse_buttons, relative_mode, calls>>


(***************************************************************************)
(* SpecHold: scoped holds on a connected session.                          *)
(***************************************************************************)
InitHold ==
    /\ variant \in {"sync", "async"}
    /\ cfg = [password |-> [set |-> FALSE, bytes |-> <<>>],
              pixel_format |-> "rgba"]
    /\ pc = "INIT_READY"
    /\ err = "none"
    /\ reason = <<>>
    /\ sent = <<>>
    /\ inbuf = <<>>
    /\ nread = 0
    /\ sockOpen = TRUE
    /\ auth_type = AUTH_TYPE_NONE
    /\ rect \in FbSizes
    /\ srv = [SrvStart EXCEPT !.pc = "run", !.fb = rect]
    /\ CapIdle
    /\ InIdle

NextHold ==
    \/ HoldKey
    \/ EnterKey
    \/ PressDrained
    \/ BodyReturn
    \/ BodyRaise
    \/ ExitKey
    \/ ReleaseDrained
    \/ HoldKeyEnd
    \/ HoldMouse
    \/ MousePressDrained
    \/ ExitMouse
    \/ MouseReleaseDrained
    \/ Cancel
    \/ Move
    \/ MoveDrained
    \/ OpCall
    \/ OpStep
    \/ OpReturn

SpecHold == InitHold /\ [][NextHold]_vars

(***************************************************************************)
(* SpecSession: the operations of SpecHold on a session the caller may     *)
(* close, between operations or in the body of a scope.  After close()     *)
(* nothing reaches the server: the sync socket raises OSError on sendall,  *)
(* the async writer drops what is written and drain() raises.              *)
(***************************************************************************)
\* close(): self.sock.close() / self.writer.close(); wait_closed()
Close ==
    /\ MayCall
    /\ sockOpen
    /\ sockOpen' = FALSE
    /\ outcome' = IF frames = <<>> THEN "returned" ELSE outcome
    /\ sent' = SentAtOpen
    /\ UNCHANGED <<twin, tasks, variant, cfg, pc, err, reason, inbuf, nread, auth_type,
                   rect, srv, capVars, frames, exc, mouse_position,
                   mouse_buttons, relative_mode, calls>>

\* capture(...) on a closed session: the write of the
\* FramebufferUpdateRequest fails
CaptureClosed ==
    /\ MayCall
    /\ ~sockOpen
    /\ calls < MaxHolds
    /\ sent' = SentAtOpen
    /\ EndScope(frames, WriteError, SentAtOpen)
    /\ calls' = calls + 1
    /\ UNCHANGED <<holdFixed, mouse_buttons, relative_mode>>

NextSession ==
    \/ NextHold
    \/ Close
    \/ CaptureClosed

SpecSession == InitHold /\ [][NextSession]_vars

(***************************************************************************)
(* Claims about the scoped holds, checked under SpecHold.                  *)
(***************************************************************************)

\* The KeyEvent messages (down = 1 press, 0 release) of a list of keys
RECURSIVE KeyEvents(_, _)
KeyEvents(down, keys) ==
    IF keys = <<>> THEN <<>>
    ELSE KeyEvent(down, keys[1]) \o KeyEvents(down, Drop(keys, 1))

AllKnown(keys) == \A i \in 1..Len(keys) : keys[i] \in DOMAIN key_codes

\* The keys held down after the messages s: a press adds its keysym on top,
\* a release takes the topmost keysym off if it is the one released, and a
\* release of anything else stays as an unmatched entry.
RECURSIVE HeldAfter(_, _)
HeldAfter(s, st) ==
    IF s = <<>> THEN st
    ELSE IF s[1] = 5 THEN HeldAfter(Drop(s, 6), st)
    ELSE IF s[2] = 1 THEN HeldAfter(Drop(s, 8), Append(st, SubSeq(s, 5, 8)))
    ELSE IF st # <<>> /\ st[Len(st)] = SubSeq(s, 5, 8)
    THEN HeldAfter(Drop(s, 8), SubSeq(st, 1, Len(st) - 1))
    ELSE HeldAfter(Drop(s, 8), Append(st, <<>>))

Held == HeldAfter(sent, <<>>)

\* The button mask of the last PointerEvent of s, 0 if there is none
RECURSIVE ButtonsAfter(_, _)
ButtonsAfter(s, b) ==
    IF s = <<>> THEN b
    ELSE IF s[1] = 5 THEN ButtonsAfter(Drop(s, 6), s[2])
    ELSE ButtonsAfter(Drop(s, 8), b)

\* C3: a hold_key scope of known keys [k1..kn] writes press(k1)..press(kn)
\* on entry, in this order and before the body runs, and on exit
\* release(kn)..release(k1); when the scope ends, also by an error raised
\* in the body, every press has been matched by its release, innermost
\* first, before the caller sees the result or the error.
C3_HoldKeyPressRelease ==
    variant = "sync" =>
        /\ \A i \in 1..Len(frames) :
            LET f == frames[i] IN
            (f.kind = "key" /\ AllKnown(f.keys)) =>
                /\ SubSeq(sent, f.start + 1, f.start + 8 * f.n)
                       = KeyEvents(1, SubSeq(f.keys, 1, f.n))
                /\ (i < Len(frames) \/ pc = "BODY" \/ f.body >= 0)
                       => f.n = Len(f.keys)
                /\ f.body >= 0 =>
                       SubSeq(sent, f.body + 1, f.body + 8 * f.r)
                           = KeyEvents(0, SubSeq(Reverse(f.keys), 1, f.r))
                /\ f.r <= f.n
        /\ (frames = <<>> /\ outcome # "none") => Held = <<>>

C3_Witness ==
    /\ variant = "sync"
    /\ frames = <<>>
    /\ outcome = "BodyError"
    /\ sent = KeyEvents(1, <<"Ctrl", "a">>) \o KeyEvents(0, <<"a", "Ctrl">>)

\* C4: when a cancelled hold (async) has ended, every key press written
\* has been followed by its release and the last pointer message written
\* has no button down.
C4_CancelledHoldReleases ==
    (variant = "async" /\ frames = <<>> /\ outcome = "Cancelled") =>
        /\ Held = <<>>
        /\ ButtonsAfter(sent, 0) = 0


(***************************************************************************)
(* SpecMapper: the coordinate mapper applied to framebuffer sizes and      *)
(* relative points and rectangles.  rect is the framebuffer, region the    *)
(* argument (a point has width = height = 0), result the value returned    *)
(* and err the exception raised.                                           *)
(***************************************************************************)
MapperDims == {1, 3, 100, 1000, 65535}
MapperSizes == [width : MapperDims, height : MapperDims]

\* relative coordinates tried against a relative dimension rel: the two
\* ends, the last coordinate inside, and one in between
RelCoords(rel) == {0, 28971, rel} \cup (IF rel > 0 THEN {rel - 1} ELSE {})

MapperResolve ==
    /\ pc = "MAPPER_READY"
    /\ pc' = "RESOLVED"
    /\ result' = get_relative_resolution(rect)
    /\ UNCHANGED <<variant, cfg, err, reason, sent, inbuf, nread, sockOpen,
                   auth_type, rect, srv, region, request, pixels, remaining,
                   zdec, marks, written, inVars>>

MapperConvertPoint ==
    /\ pc = "MAPPER_READY"
    /\ \E rel_res \in {get_relative_resolution(rect)} :
       \E x \in RelCoords(rel_res.x), y \in RelCoords(rel_res.y) :
       \E c \in {convert_relative_point([x |-> x, y |-> y], rect)} :
           /\ region' = [x |-> x, y |-> y, width |-> 0, height |-> 0]
           /\ err' = c.err
           /\ result' = [x |-> c.x, y |-> c.y]
    /\ pc' = "POINT_CONVERTED"
    /\ UNCHANGED <<variant, cfg, reason, sent, inbuf, nread, sockOpen,
                   auth_type, rect, srv, request, pixels, remaining, zdec,
                   marks, written, inVars>>

MapperConvertRect ==
    /\ pc = "MAPPER_READY"
    /\ \E rel_res \in {get_relative_resolution(rect)} :
       \E x \in {v \in RelCoords(rel_res.x) : v <= rel_res.x},
          y \in {v \in RelCoords(rel_res.y) : v <= rel_res.y} :
       \E r \in {[x |-> x, y |-> y, width |-> rel_res.x - x,
                  height |-> rel_res.y - y]} :
       \E c \in {convert_relative_rect(r, rect)} :
           /\ region' = r
           /\ err' = c.err
           /\ result' = [x |-> c.x, y |-> c.y, width |-> c.width,
                         height |-> c.height]
    /\ pc' = "RECT_CONVERTED"
    /\ UNCHANGED <<variant, cfg, reason, sent, inbuf, nread, sockOpen,
                   auth_type, rect, srv, request, pixels, remaining, zdec,
                   marks, written, inVars>>

InitMapper ==
    /\ variant = "sync"
    /\ cfg = [password |-> [set |-> FALSE, bytes |-> <<>>],
              pixel_format |-> "rgba"]
    /\ pc = "MAPPER_READY"
    /\ err = "none"
    /\ reason = <<>>
    /\ sent = <<>>
    /\ inbuf = <<>>
    /\ nread = 0
    /\ sockOpen = TRUE
    /\ auth_type = AUTH_TYPE_NONE
    /\ rect \in MapperSizes
    /\ srv = [SrvStart EXCEPT !.pc = "run", !.fb = rect]
    /\ CapIdle
    /\ InIdle

NextMapper ==
    \/ MapperResolve
    \/ MapperConvertPoint
    \/ MapperConvertRect

SpecMapper == InitMapper /\ [][NextMapper]_vars

(***************************************************************************)
(* Claims about the coordinate mapper, checked under SpecMapper.           *)
(***************************************************************************)
\* floor(v * size / rel) computed exactly
ExactFloor(v, size, rel) ==
    BigToInt(BigDivMod(BigMul(BigOf(v), BigOf(size)), BigOf(rel)).q)

\* C18: for every framebuffer size, get_relative_resolution returns two
\* positive multiples of 100, at most 99900, and the larger framebuffer
\* dimension is mapped to 99900.
C18_RelativeResolutionRange ==
    pc = "RESOLVED" =>
        /\ result.x > 0 /\ result.y > 0
        /\ result.x % 100 = 0 /\ result.y % 100 = 0
        /\ result.x <= 99900 /\ result.y <= 99900
        /\ rect.width >= rect.height => result.x = 99900
        /\ rect.height >= rect.width => result.y = 99900

\* C19: converting a relative point never fails and yields
\* (floor(rx*W/rel_w), floor(ry*H/rel_h)); (0,0) gives (0,0) and
\* (rel_w, rel_h) gives (W, H); a rectangle is converted by the same
\* formula applied to its origin and to its extent.
C19_ConversionIsFloor ==
    pc \in {"POINT_CONVERTED", "RECT_CONVERTED"} =>
        LET rel_res == get_relative_resolution(rect) IN
        /\ err = "none"
        /\ rel_res.x > 0 /\ rel_res.y > 0
        /\ result.x = ExactFloor(region.x, rect.width, rel_res.x)
        /\ result.y = ExactFloor(region.y, rect.height, rel_res.y)
        /\ pc = "RECT_CONVERTED" =>
            /\ result.width = ExactFloor(region.width, rect.width, rel_res.x)
            /\ result.height = ExactFloor(region.height, rect.height, rel_res.y)
        /\ (pc = "POINT_CONVERTED" /\ region.x = rel_res.x
                /\ region.y = rel_res.y) =>
            (result.x = rect.width /\ result.y = rect.height)


(***************************************************************************)
(* Claims about the pointer and the key operations, checked under          *)
(* SpecHold.                                                               *)
(***************************************************************************)
\* bit k of the button mask m, and m with bit k set or cleared
BitOf(m, k) == (m \div Pow(2, k)) % 2
WithBit(m, k) == IF BitOf(m, k) = 1 THEN m ELSE m + Pow(2, k)
WithoutBit(m, k) == IF BitOf(m, k) = 1 THEN m - Pow(2, k) ELSE m
\* the button whose mask is mk
ButtonOf(mk) == CHOOSE k \in 0..7 : Pow(2, k) = mk
\* the PointerEvent message with mask m at position pos
Pointer(m, pos) == <<5, m>> \o ToBytes(pos.x, 2) \o ToBytes(pos.y, 2)

\* C11: entering a hold_mouse scope of button b writes exactly one
\* PointerEvent whose mask is the old mask with bit b set, leaving it
\* writes exactly one PointerEvent whose mask has bit b cleared, both at
\* the current pointer position, and a scope is never left without that
\* message, whether its body returned or raised.
C11_HoldMousePairedEvents ==
    [][variant = "sync" =>
        /\ (Len(frames') = Len(frames) + 1
                /\ frames'[Len(frames')].kind = "mouse") =>
            LET f == frames'[Len(frames')] IN
            /\ Len(sent') = f.start + 6
            /\ SubSeq(sent', f.start + 1, f.start + 6)
                   = Pointer(WithBit(mouse_buttons, ButtonOf(f.mask)),
                             mouse_position)
            /\ mouse_buttons' = WithBit(mouse_buttons, ButtonOf(f.mask))
        /\ (Len(frames') < Len(frames) /\ Top.kind = "mouse") =>
            /\ sent' = sent \o Pointer(WithoutBit(mouse_buttons,
                                                  ButtonOf(Top.mask)),
                                       mouse_position)
            /\ mouse_buttons' = WithoutBit(mouse_buttons, ButtonOf(Top.mask))
            /\ mouse_position' = mouse_position]_vars

C11_Witness ==
    /\ variant = "sync"
    /\ frames = <<>>
    /\ outcome = "BodyError"
    /\ mouse_position = [x |-> 1, y |-> 0]
    /\ sent = <<5, 4, 0, 1, 0, 0, 5, 0, 0, 1, 0, 0>>

\* C12: move(p) stores p, or its converted value when relative is asked for
\* or a hold_mouse scope set the relative mode, and writes exactly one
\* PointerEvent with that position and the unchanged button mask, also when
\* the pointer already was at that position.
C12_MoveEmitsOnePointerEvent ==
    (pc = "OP" /\ Top.name = "move") =>
        LET p == [x |-> Top.keys[1], y |-> Top.keys[2]]
            c == convert_relative_point(p, rect)
            q == [x |-> c.x, y |-> c.y]
        IN /\ mouse_position \in {p, q}
           /\ Top.rel = "true" => mouse_position = q
           /\ (Top.rel = "false" /\ relative_mode # "true") => mouse_position = p
           /\ mouse_buttons = Top.mask0
           /\ Len(sent) = Top.start + 6
           /\ SubSeq(sent, Top.start + 1, Top.start + 6)
                  = Pointer(Top.mask0, mouse_position)

C12_Witness ==
    /\ pc = "OP"
    /\ Len(frames) = 1
    /\ Top.name = "move"
    /\ Top.pos0 = [x |-> 1, y |-> 0]
    /\ mouse_position = [x |-> 1, y |-> 0]
    /\ rect = [width |-> 2, height |-> 2]
    /\ Top.rel = "true"
    /\ calls = 2
    /\ sent = <<5, 0, 0, 1, 0, 0>>


\* n press/release pairs of button b, the mask being m before the first
RECURSIVE ClickPairs(_, _, _, _)
ClickPairs(n, m, b, pos) ==
    IF n = 0 THEN <<>>
    ELSE Pointer(WithBit(m, b), pos) \o Pointer(WithoutBit(m, b), pos)
             \o ClickPairs(n - 1, WithoutBit(m, b), b, pos)

\* C13: when click(b) returns it has written two PointerEvents, the mask
\* with bit b set and then with bit b cleared, double_click(b) that pair
\* twice, scroll_up(n) and scroll_down(n) the pair n times for button 3 and
\* button 4 (nothing for n = 0); if bit b was clear before the call, the
\* button mask and the pointer position are what they were before it.
C13_ClickEmitsPairs ==
    [][(/\ pc = "OP"
        /\ Top.name \in {"click", "double_click", "scroll_up", "scroll_down"}
        /\ Len(frames') < Len(frames)) =>
         LET b == CASE Top.name = "scroll_up" -> 3
                    [] Top.name = "scroll_down" -> 4
                    [] OTHER -> Top.button
             k == CASE Top.name = "click" -> 1
                    [] Top.name = "double_click" -> 2
                    [] OTHER -> Top.n
         IN /\ SubSeq(sent, Top.start + 1, Len(sent))
                   = ClickPairs(k, Top.mask0, b, Top.pos0)
            /\ sent' = sent
            /\ mouse_position = Top.pos0
            /\ BitOf(Top.mask0, b) = 0 => mouse_buttons = Top.mask0
            /\ UNCHANGED <<mouse_buttons, mouse_position>>]_vars

C13_Witness ==
    /\ frames = <<>>
    /\ outcome = "returned"
    /\ mouse_buttons = 0
    /\ sent = <<5, 4, 0, 0, 0, 0, 5, 0, 0, 0, 0, 0,
                5, 4, 0, 0, 0, 0, 5, 0, 0, 0, 0, 0>>

\* the press and the release of the keysym of every character of text
RECURSIVE TypedPairs(_)
TypedPairs(text) ==
    IF text = <<>> THEN <<>>
    ELSE LET code == IF text[1] = "a" THEN 97 ELSE 65
         IN <<4, 1, 0, 0, 0, 0, 0, code, 4, 0, 0, 0, 0, 0, 0, code>>
                \o TypedPairs(Drop(text, 1))

\* C14: when write(s) returns it has written, for each character of s in
\* order, the press and then the release of that character's own keysym,
\* 2 * len(s) KeyEvents and nothing else; while it runs at most one key is
\* down, held by a scope of that single key.
C14_WritePressReleasePerChar ==
    [][/\ (pc = "OP" /\ Top.name = "write" /\ Len(frames') < Len(frames)) =>
            /\ SubSeq(sent, Top.start + 1, Len(sent)) = TypedPairs(Top.keys)
            /\ Len(sent) = Top.start + 16 * Len(Top.keys)
            /\ sent' = sent
       /\ \A i \in 1..Len(frames) :
            (frames[i].kind = "op" /\ frames[i].name = "write") =>
                /\ Len(frames) <= i + 1
                /\ Len(frames) = i + 1 =>
                    /\ frames[i + 1].kind = "key"
                    /\ frames[i + 1].keys = <<frames[i].keys[frames[i].i]>>
                /\ Len(HeldAfter(SubSeq(sent, frames[i].start + 1, Len(sent)),
                                 <<>>)) <= 1]_vars

C14_Witness ==
    /\ frames = <<>>
    /\ outcome = "returned"
    /\ sent = <<4, 1, 0, 0, 0, 0, 0, 97, 4, 0, 0, 0, 0, 0, 0, 97,
                4, 1, 0, 0, 0, 0, 0, 65, 4, 0, 0, 0, 0, 0, 0, 65>>

\* the index of the first key of keys that is not in the key table
FirstUnknown(keys) ==
    CHOOSE u \in 1..Len(keys) :
        /\ keys[u] \notin DOMAIN key_codes
        /\ \A v \in 1..(u - 1) : keys[v] \in DOMAIN key_codes

\* the KeyEvents (down = 1 or 0) of the known keys ks, in order
RECURSIVE KnownKeyEvents(_, _)
KnownKeyEvents(down, ks) ==
    IF ks = <<>> THEN <<>>
    ELSE <<4, down, 0, 0>> \o ToBytes(IF ks[1] = "a" THEN 97 ELSE 65507, 4)
             \o KnownKeyEvents(down, Drop(ks, 1))

\* C15: a hold_key scope (press included) whose list has a key that is not
\* in the key table presses only the keys before the first such key, never
\* reaches its body, ends with KeyError, and releases the keys it pressed
\* in reverse order, writing nothing else, before the caller sees KeyError.
C15_UnknownKeyFails ==
    variant = "sync" =>
        /\ \A i \in 1..Len(frames) :
            LET f == frames[i] IN
            (f.kind = "key" /\ ~AllKnown(f.keys)) =>
                LET u == FirstUnknown(f.keys) IN
                /\ f.n < u
                /\ f.r <= f.n
                /\ i = Len(frames)
                /\ pc \in {"KEY_ENTER", "KEY_EXIT"}
                /\ SubSeq(sent, f.start + 1, f.start + 8 * f.n)
                       = KnownKeyEvents(1, SubSeq(f.keys, 1, f.n))
                /\ pc = "KEY_ENTER" => Len(sent) = f.start + 8 * f.n
                /\ pc = "KEY_EXIT" =>
                    /\ exc = "KeyError"
                    /\ f.n = u - 1
                    /\ f.body = f.start + 8 * f.n
                    /\ Len(sent) = f.body + 8 * f.r
                    /\ SubSeq(sent, f.body + 1, Len(sent))
                           = KnownKeyEvents(0,
                                 SubSeq(Reverse(SubSeq(f.keys, 1, f.n)), 1, f.r))
        /\ (frames = <<>> /\ outcome = "KeyError") => Held = <<>>

C15_Witness ==
    /\ variant = "sync"
    /\ frames = <<>>
    /\ outcome = "KeyError"
    /\ sent = <<4, 1, 0, 0, 0, 0, 255, 227, 4, 0, 0, 0, 0, 0, 255, 227>>


(***************************************************************************)
(* SpecDesKey: the derivation of the DES key from the password.            *)
(* cfg.password.bytes holds the characters (code points) of the password   *)
(* string, result the key and err the exception raised.                    *)
(***************************************************************************)
MaxPassword == 2    \* longest of the short passwords tried

\* b"password" and a password longer than 8 bytes
PasswordBytes == <<112, 97, 115, 115, 119, 111, 114, 100>>
LongPasswordBytes == PasswordBytes \o <<49>>

\* passwords with a character outside ASCII: "p\u00e9" and "\u00e9"
NonAsciiPasswords == {<<112, 233>>, <<233>>}

KeyPasswords ==
    UNION {[1..k -> Range(PasswordBytes)] : k \in 1..MaxPassword}
    \cup {PasswordBytes, LongPasswordBytes}
    \cup NonAsciiPasswords

\* str.encode('ascii'): the code points as bytes; a code point above 127
\* raises UnicodeEncodeError
EncodeAscii(chars) ==
    IF \E i \in 1..Len(chars) : chars[i] > 127
    THEN [err |-> "UnicodeEncodeError", bytes |-> <<>>]
    ELSE [err |-> "none", bytes |-> chars]

\* des_key = config.password.encode('ascii')[:8].ljust(8, b'\x00') and the
\* reversal of the bits of each of its bytes
DeriveKey ==
    /\ pc = "KEY_READY"
    /\ LET e == EncodeAscii(cfg.password.bytes) IN
       IF e.err # "none"
       THEN /\ pc' = "KEY_FAILED"
            /\ err' = e.err
            /\ result' = result
       ELSE /\ pc' = "KEY_DERIVED"
            /\ err' = err
            /\ result' = DesKey(e.bytes)
    /\ UNCHANGED <<variant, cfg, reason, sent, inbuf, nread, sockOpen,
                   auth_type, rect, srv, region, request, pixels, remaining,
                   zdec, marks, written, inVars>>

InitDesKey ==
    /\ variant \in {"sync", "async"}
    /\ cfg \in [password : [set : {TRUE}, bytes : KeyPasswords],
                pixel_format : {"rgba"}]
    /\ pc = "KEY_READY"
    /\ err = "none"
    /\ reason = <<>>
    /\ sent = <<>>
    /\ inbuf = <<>>
    /\ nread = 0
    /\ sockOpen = TRUE
    /\ auth_type = AUTH_TYPE_VNC
    /\ rect = [width |-> 0, height |-> 0]
    /\ srv = SrvStart
    /\ CapIdle
    /\ InIdle

NextDesKey == DeriveKey

SpecDesKey == InitDesKey /\ [][NextDesKey]_vars

(***************************************************************************)
(* Claims about the DES key, checked under SpecDesKey.                     *)
(***************************************************************************)
\* C20 as stated: for the password "password" the DES key derived by the
\* client equals the bytes 0E A6 0E 0E C2 CE 4C 0E.
C20_KeyAsStated ==
    (pc = "KEY_DERIVED" /\ cfg.password.bytes = PasswordBytes) =>
        result = <<14, 166, 14, 14, 194, 206, 76, 14>>

\* C20: for the password "password" the DES key derived by the client (the
\* first 8 bytes, each byte bit-reversed) equals the bytes
\* 0E 86 CE CE EE F6 4E 26.
C20_PasswordKey ==
    (pc = "KEY_DERIVED" /\ cfg.password.bytes = PasswordBytes) =>
        result = <<14, 134, 206, 206, 238, 246, 78, 38>>

C20_Witness ==
    /\ pc = "KEY_DERIVED"
    /\ cfg.password.bytes = PasswordBytes
    /\ Len(result) = 8


(***************************************************************************)
(* The handshake states of connect.  The positions of the model inside one *)
(* state of the handshake are mapped to that state: the challenge is read  *)
(* in VNC_AUTH, and ClientInit and ServerInit are exchanged on the way     *)
(* into INIT_READY.                                                        *)
(***************************************************************************)
HandshakeState(p) ==
    CASE p = "VNC_CHALLENGE" -> "VNC_AUTH"
      [] p \in {"CLIENT_INIT", "SERVER_INIT"} -> "SESSION_INIT"
      [] OTHER -> p

HandshakeRank(p) ==
    CASE HandshakeState(p) = "VERSION_EXCHANGE" -> 1
      [] HandshakeState(p) = "SECURITY_NEGOTIATION" -> 2
      [] HandshakeState(p) \in {"VNC_AUTH", "NO_AUTH"} -> 3
      [] HandshakeState(p) = "SECURITY_RESULT" -> 4
      [] HandshakeState(p) = "SESSION_INIT" -> 5
      [] HandshakeState(p) = "INIT_READY" -> 6
      [] OTHER -> 0

Stopped == pc \in {"FAILED", "HANG"}

HandshakeStepInOrder ==
    /\ ~Stopped /\ HandshakeState(pc') # HandshakeState(pc) /\ pc' \notin {"FAILED", "HANG"}
         => HandshakeRank(pc') = HandshakeRank(pc) + 1
    /\ ~Stopped /\ HandshakeState(pc') = HandshakeState(pc)
         => pc' = pc \/ (pc = "VNC_AUTH" /\ pc' = "VNC_CHALLENGE")
                     \/ (pc = "CLIENT_INIT" /\ pc' = "SERVER_INIT")
    /\ Stopped => pc' = pc /\ sent' = sent /\ nread' = nread
    /\ pc' = "INIT_READY" => pc \in {"SERVER_INIT", "INIT_READY"}

\* C26: connect passes through VERSION_EXCHANGE, SECURITY_NEGOTIATION, VNC_AUTH
\* or NO_AUTH, SECURITY_RESULT, INIT_READY in this order, never skipping or
\* revisiting a state; the client object exists only in INIT_READY, and after a
\* failure no further bytes are sent and no state is entered again.
C26_HandshakeOrder ==
    /\ [][HandshakeStepInOrder]_vars
    /\ [](pc = "INIT_READY" =>
            /\ auth_type \in {AUTH_TYPE_NONE, AUTH_TYPE_VNC}
            /\ IsPrefix(VNC_PROTOCOL_VERSION \o <<auth_type>>, sent)
            /\ err = "none")

C26_Witness ==
    /\ pc = "INIT_READY"
    /\ auth_type = AUTH_TYPE_VNC
    /\ Len(sent) > 13 + 16


(***************************************************************************)
(* read(): the peer closes the stream before the bytes of a read arrived.  *)
(***************************************************************************)
ReadAtEof ==
    /\ pc \in {"VERSION_EXCHANGE", "SECURITY_NEGOTIATION", "VNC_CHALLENGE",
               "SECURITY_RESULT", "SERVER_INIT"}
    /\ ReadOutcome(HandshakeNeed) = "eof"

\* C23: a read of n bytes returns exactly n bytes or fails with a transport
\* error: when the server has closed the connection before the n bytes arrived,
\* the read and the connect call that issued it end with that error and do not
\* go on waiting, in the sync and in the async variant.
C23_ReadReturnsOrFails ==
    /\ [][ReadAtEof => pc' = "FAILED" /\ err' = "TransportError" /\ nread' = nread]_vars
    /\ [](pc # "HANG")
    /\ [](err = "TransportError" => srv.closed)


(***************************************************************************)
(* Claims about the messages and encodings capture does not implement.     *)
(***************************************************************************)
CaptureFailedWith(kind, values) ==
    /\ pc' = "FAILED"
    /\ err' = kind
    /\ result' = <<>>
    /\ kind = "UnknownMessageType" => reason'[1] \in values

\* C21: a rectangle whose encoding is neither 0 (Raw) nor 6 (zlib) makes
\* capture fail with an unsupported-encoding error, and a message type other
\* than 0 or 2 makes capture fail with an unknown-message-type error; capture
\* neither skips the input nor returns a pixel grid.
C21_UnsupportedInputFails ==
    /\ [][/\ SrvOtherMessage /\ pc = "MSG" /\ inbuf = <<>>
             => CaptureFailedWith("UnknownMessageType", OtherTypes)
          /\ SrvOtherEncoding /\ pc = "RECT" /\ inbuf = <<>>
             => CaptureFailedWith("UnsupportedEncoding", OtherEncodings)
          /\ CaptureMessage /\ inbuf[1] \notin {MSG_TYPE_FRAMEBUFFER_UPDATE,
                                                MSG_TYPE_CLIPBOARD}
             => CaptureFailedWith("UnknownMessageType", {inbuf[1]})
          /\ CaptureRect /\ ReadInt(inbuf, 8, 4) \notin {ENCODING_RAW, ENCODING_ZLIB}
             => CaptureFailedWith("UnsupportedEncoding", {})
          /\ pc = "FAILED" => pc' = "FAILED" /\ result' = <<>> /\ inbuf' = inbuf]_vars
    /\ [](err \in {"UnknownMessageType", "UnsupportedEncoding"}
            => pc = "FAILED" /\ result = <<>>)

C21_Witness ==
    /\ pc = "FAILED"
    /\ err = "UnsupportedEncoding"
    /\ srv.chunks = 3
    /\ written # {}
    /\ calls = 2

C21_WitnessType ==
    /\ pc = "FAILED"
    /\ err = "UnknownMessageType"
    /\ reason = <<1>>
    /\ inbuf = <<>>


(***************************************************************************)
(* Claims about the alpha channel of the pixel buffer.                     *)
(***************************************************************************)
AlphaMarksWritten ==
    \A c \in Cells(rect) :
        IF c \in written
        THEN pixels[c][4] = 255
        ELSE pixels[c] = <<0, 0, 0, 0>>

\* C29: within one capture call the alpha byte of a cell is 0 until a
\* rectangle received in this call covers the cell and 255 from then on; the
\* buffer is all zero at the start of each capture, so a cell covered in an
\* earlier capture only does not count as covered.
C29_AlphaPerCapture ==
    /\ [](calls > 0 => AlphaMarksWritten)
    /\ [][/\ calls' = calls /\ calls > 0 =>
                \A c \in Cells(rect) :
                    pixels[c][4] = 255 => pixels'[c][4] = 255
          /\ calls' # calls =>
                /\ \A c \in Cells(rect) : pixels'[c] = <<0, 0, 0, 0>>
                /\ written' = {}
                /\ pc' = "MSG"]_vars
    /\ [](pc = "RETURNED" => slice_rect(region, rect) \subseteq written)

C29_Witness ==
    /\ calls = 2
    /\ pc = "MSG"
    /\ request.kind = "None"
    /\ written = {<<0, 0>>}
    /\ pixels[<<0, 0>>][4] = 255
    /\ pixels[<<0, 1>>][4] = 0
    /\ srv.chunks = 2


(***************************************************************************)
(* Claims about the point at which capture returns.                        *)
(***************************************************************************)
\* C30: capture tests completeness only after all rectangles declared by the
\* count of a FramebufferUpdate have been read: when it returns no rectangle of
\* the message is left unread, and the bytes it has consumed are whole server
\* messages, also when an earlier rectangle of the last message covered the
\* region already.
C30_ReturnsAtMessageEnd ==
    pc = "RETURNED" =>
        /\ remaining = 0
        /\ srv.left = 0
        /\ inbuf = <<>>
        /\ 0 \in marks


(***************************************************************************)
(* Claims about the relative mode of hold_mouse.                           *)
(***************************************************************************)
\* the relative flag of the innermost hold_mouse scope among the frames fs
RECURSIVE InnerMouse(_)
InnerMouse(fs) ==
    IF fs = <<>> THEN "none"
    ELSE IF fs[Len(fs)].kind = "mouse" THEN fs[Len(fs)].rel
    ELSE InnerMouse(Pop(fs))

RelModeOf(v) == IF v = "unset" THEN "false" ELSE v

\* a step in which move has stored a point and written its message
MoveWritten ==
    /\ Len(frames') = Len(frames) + 1
    /\ frames'[Len(frames')].kind = "op"
    /\ frames'[Len(frames')].name = "move"

MovedPoint == [x |-> frames'[Len(frames')].keys[1],
               y |-> frames'[Len(frames')].keys[2]]

\* a step in which the hold_mouse scope on top is left
MouseScopeLeft ==
    /\ pc \in {"MOUSE_EXIT", "MOUSE_RELEASE_DRAIN"}
    /\ frames' # frames
    /\ pc' \notin {"MOUSE_EXIT", "MOUSE_RELEASE_DRAIN"} \/ Len(frames') < Len(frames)

\* C25: inside a hold_mouse(relative=True) scope every move(p), also one with
\* relative=False, stores and emits the point p converted by the coordinate
\* mapper; when a hold_mouse scope is left, normally or by an error, nested or
\* not, the relative mode is the one found when the scope was entered.
C25_RelativeModeScoped ==
    [][/\ MoveWritten /\ InnerMouse(frames) = "true" =>
            \E c \in {convert_relative_point(MovedPoint, rect)} :
                /\ mouse_position' = [x |-> c.x, y |-> c.y]
                /\ sent' = SentAtOpen \o MoveEvent(mouse_buttons, c.x, c.y)
       /\ MouseScopeLeft =>
            RelModeOf(relative_mode') = Top.old]_vars


(***************************************************************************)
(* Claims about a closed session, checked under SpecSession.               *)
(***************************************************************************)
\* the errors a write on a closed stream raises
ClosedErrors == {"OSError", "ConnectionResetError"}

\* a step in which an operation called by the caller returns or fails
OperationEnds ==
    /\ frames' = <<>>
    /\ pc' = "INIT_READY"
    /\ \/ frames # <<>>
       \/ calls' > calls

\* that operation began after close()
BeganClosed == IF frames = <<>> THEN ~sockOpen ELSE ~frames[1].open

\* it is capture, move or hold_mouse (which fail at their first write), or
\* hold_key, click, press or write
Listed ==
    \/ frames = <<>>
    \/ frames[1].kind \in {"key", "mouse"}
    \/ frames[1].kind = "op" /\ frames[1].name \in {"move", "click", "press", "write"}

\* C22: after close, every public operation (capture, move, click, press,
\* write, hold_key, hold_mouse), sync or async, fails with the error of a
\* closed session, and no byte of it is delivered to the server.
C22_ClosedSessionFails ==
    [][/\ OperationEnds /\ BeganClosed /\ Listed => outcome' \in ClosedErrors
       /\ ~sockOpen => sent' = sent \/ sent' = <<>>]_vars


\* the last PointerEvent among the messages s, last if there is none
RECURSIVE LastPointer(_, _)
LastPointer(s, last) ==
    IF s = <<>> THEN last
    ELSE IF s[1] = 5 THEN LastPointer(Drop(s, 6), Take(s, 6))
    ELSE LastPointer(Drop(s, 8), last)

\* C27: the stored pointer position and button mask are those of the last
\* PointerEvent emitted: they change only together with a PointerEvent that
\* carries them, and when the PointerEvent of move or of the entry of
\* hold_mouse cannot be emitted they are what they were before the call.
C27_StoredPointerIsEmitted ==
    /\ [][mouse_position' # mouse_position \/ mouse_buttons' # mouse_buttons
            => LastPointer(sent', <<>>) = Pointer(mouse_buttons', mouse_position')]_vars
    /\ [](LastPointer(sent, <<>>) # <<>>
            => LastPointer(sent, <<>>) = Pointer(mouse_buttons, mouse_position))


\* a hold_mouse scope of button b is active: it has written its press and
\* not yet its release
ActiveHold(b) ==
    \E i \in 1..Len(frames) :
        /\ frames[i].kind = "mouse"
        /\ frames[i].mask = Mask(b)
        /\ ~(i = Len(frames) /\ pc = "MOUSE_RELEASE_DRAIN")

\* C28: bit b of the button mask is set exactly when at least one hold_mouse
\* scope of button b is active, also when scopes of one button are nested and
\* when click(b) is called inside a hold of b; the mask is 0 when no scope is
\* active.
C28_MaskIsActiveHolds ==
    \A b \in 0..7 : BitOf(mouse_buttons, b) = 1 <=> ActiveHold(b)


C24_WitnessReady ==
    /\ twin # NoTwin
    /\ twin.pc = "INIT_READY"
    /\ pc = "INIT_READY"
    /\ auth_type = AUTH_TYPE_VNC

(***************************************************************************)
(* Nesting of the key events of the sync client, checked under SpecHold.   *)
(***************************************************************************)
\* The keysyms the scopes fs hold down, outermost scope first: of every
\* hold_key scope the keys entered and not yet released.
RECURSIVE HeldByScopes(_)
HeldByScopes(fs) ==
    IF fs = <<>> THEN <<>>
    ELSE (IF fs[1].kind = "key"
          THEN [i \in 1..(fs[1].n - fs[1].r) |->
                   ToBytes(key_codes[fs[1].keys[i]], 4)]
          ELSE <<>>) \o HeldByScopes(Tail(fs))

\* C34: in the sync variant, for any nesting of hold_key scopes and press
\* calls, every release written is for the most recently pressed key not
\* yet released, so the keys down are at every moment those of the active
\* scopes, outermost first, and none is down when no scope is active.
C34_KeyEventsWellNested ==
    variant = "sync" => Held = HeldByScopes(frames)

\* hold_key('Ctrl') around press('a') has returned
C34_Witness ==
    /\ variant = "sync"
    /\ frames = <<>>
    /\ outcome = "returned"
    /\ calls = 2
    /\ sent = KeyEvent(1, "Ctrl") \o KeyEvent(1, "a")
              \o KeyEvent(0, "a") \o KeyEvent(0, "Ctrl")

(***************************************************************************)
(* The DES key as a function of the password, checked under SpecDesKey.    *)
(***************************************************************************)
\* str.encode('utf-8') of code points below 2048
RECURSIVE Utf8(_)
Utf8(chars) ==
    IF chars = <<>> THEN <<>>
    ELSE (IF chars[1] < 128 THEN <<chars[1]>>
          ELSE <<192 + (chars[1] \div 64), 128 + (chars[1] % 64)>>)
         \o Utf8(Tail(chars))

\* bit k of the byte n
ByteBit(n, k) == (n \div Pow(2, k)) % 2

\* the byte whose bit 7 - k is bit k of n
RECURSIVE MirrorFrom(_, _)
MirrorFrom(n, k) ==
    IF k > 7 THEN 0 ELSE ByteBit(n, k) * Pow(2, 7 - k) + MirrorFrom(n, k + 1)

\* C32: for every password a DES key of exactly 8 bytes is derived; byte i
\* is the bit reversal of the i-th byte of the encoded password for i below
\* min(8, length) and 00 for the remaining positions, so that bytes beyond
\* the eighth have no influence.
C32_KeyFromFirstEightBytes ==
    pc # "KEY_READY" =>
        LET b == Utf8(cfg.password.bytes) IN
        /\ pc = "KEY_DERIVED"
        /\ Len(result) = 8
        /\ \A i \in 1..8 :
            result[i] = IF i <= Len(b) THEN MirrorFrom(b[i], 0) ELSE 0

(***************************************************************************)
(* The range of converted coordinates, checked under SpecMapper.           *)
(***************************************************************************)
\* C39: when the relative resolution is positive, a relative point with
\* 0 <= rx < rel_w and 0 <= ry < rel_h converts without error to a point
\* with 0 <= x < W and 0 <= y < H, and a relative rectangle inside
\* (0, 0, rel_w, rel_h) converts to a rectangle with x + width <= W and
\* y + height <= H.
C39_ConversionStaysInside ==
    LET rel_res == get_relative_resolution(rect) IN
    (rel_res.x > 0 /\ rel_res.y > 0) =>
        /\ (/\ pc = "POINT_CONVERTED"
            /\ region.x < rel_res.x
            /\ region.y < rel_res.y) =>
               /\ err = "none"
               /\ 0 <= result.x /\ result.x < rect.width
               /\ 0 <= result.y /\ result.y < rect.height
        /\ (/\ pc = "RECT_CONVERTED"
            /\ region.x + region.width <= rel_res.x
            /\ region.y + region.height <= rel_res.y) =>
               /\ err = "none"
               /\ 0 <= result.x /\ 0 <= result.width
               /\ 0 <= result.y /\ 0 <= result.height
               /\ result.x + result.width <= rect.width
               /\ result.y + result.height <= rect.height

\* the last relative point inside, on the largest framebuffer
C39_Witness ==
    /\ pc = "POINT_CONVERTED"
    /\ rect = [width |-> 65535, height |-> 65535]
    /\ region.x = 99899
    /\ region.y = 99899
    /\ result = [x |-> 65534, y |-> 65534]

(***************************************************************************)
(* The zlib decoder of the session, checked under SpecCapture.  The server *)
(* compresses every zlib rectangle of the session with one compressor, so  *)
(* that a payload decodes only after all payloads before it, in order.     *)
(***************************************************************************)
\* capture has read all the server has sent, up to the end of a server
\* message
CaptureAtRest ==
    /\ pc \in {"MSG", "RETURNED"}
    /\ inbuf = <<>>
    /\ srv.left = 0
    /\ 0 \in marks

EarlyCutText == <<MSG_TYPE_CLIPBOARD, 0, 0, 0>> \o ToBytes(0, 4)

InitInput ==
    /\ variant \in {"sync", "async"}
    /\ cfg = [password |-> [set |-> FALSE, bytes |-> <<>>],
              pixel_format |-> "rgba"]
    /\ pc = "INIT_READY"
    /\ err = "none"
    /\ reason = <<>>
    /\ sent = <<>>
    /\ inbuf \in {<<>>, EarlyCutText}
    /\ nread = 0
    /\ sockOpen = TRUE
    /\ auth_type = AUTH_TYPE_NONE
    /\ rect = [width |-> 1, height |-> 1]
    /\ srv = [SrvStart EXCEPT !.pc = "run", !.fb = rect, !.cut = inbuf # <<>>]
    /\ region = NoRect
    /\ request = NoRequest
    /\ pixels = <<>>
    /\ remaining = 0
    /\ zdec = 0
    /\ result = <<>>
    /\ marks = {0, Len(inbuf)}
    /\ written = {}
    /\ InIdle

\* the caller's capture after an input operation of theirs has ended
CaptureAfterInput ==
    /\ outcome # "none"
    /\ frames = <<>>
    /\ CaptureRequest

NextInput ==
    \/ NextHold
    \/ CaptureAfterInput
    \/ CaptureMessage
    \/ CaptureRect
    \/ SrvUpdateHeader
    \/ SrvRect

SpecInput == InitInput /\ [][NextInput]_vars

\* capture runs: a step of it, or of the server while it waits
CaptureRuns == pc \in {"MSG", "RECT"}

\* C33: an input operation (move, click, scroll, press, write, hold_key,
\* hold_mouse: every step outside capture) reads nothing and leaves the
\* unread server bytes and the zlib decoder as they are; only capture takes
\* bytes from the connection, and a step of capture leaves the pointer
\* position, the button mask and the relative mode as they are and writes
\* nothing but its 10-byte FramebufferUpdateRequest (type 3): no KeyEvent
\* (type 4) and no PointerEvent (type 5).
C33_InputAndCaptureApart ==
    [][/\ ~(CaptureRuns \/ CaptureRuns') =>
            /\ inbuf' = inbuf
            /\ nread' = nread
            /\ zdec' = zdec
            /\ marks' = marks
       /\ (inbuf' # inbuf /\ IsPrefix(inbuf, inbuf') = FALSE) => CaptureRuns
       /\ nread' # nread => (CaptureRuns \/ CaptureRuns')
       /\ (CaptureRuns \/ CaptureRuns') =>
            /\ mouse_position' = mouse_position
            /\ mouse_buttons' = mouse_buttons
            /\ relative_mode' = relative_mode
            /\ sent' # sent =>
                 /\ ~CaptureRuns
                 /\ Len(sent') = 10
                 /\ sent'[1] = 3]_vars

\* A move and then a capture that has read an update and returned: the
\* pointer is where the move left it.
C33_Witness ==
    /\ pc = "RETURNED"
    /\ mouse_position = [x |-> 1, y |-> 0]
    /\ Len(sent) = 10
    /\ written # {}

(***************************************************************************)
(* Claims about the end of capture on a valid stream.                      *)
(***************************************************************************)
\* The server has sent only FramebufferUpdate messages with Raw or zlib
\* rectangles inside the framebuffer and ServerCutText messages.
ValidStream == ~srv.other

\* C40: on a stream of FramebufferUpdate messages with Raw or zlib
\* rectangles inside the framebuffer, interleaved with ServerCutText
\* messages, capture does not fail, and once the server has completed an
\* update with the requested region covered capture returns the grid: it
\* is not left waiting for bytes the server will not send.
C40_ReturnsOnValidStream ==
    ValidStream =>
        /\ pc # "FAILED"
        /\ (srv.done /\ pc # "RETURNED") =>
               /\ pc \in {"MSG", "RECT"}
               /\ ~ClientWaits
        /\ (srv.done /\ pc = "RETURNED") => err = "none"

(***************************************************************************)
(* SpecTasks: two tasks of one event loop use one connected async session. *)
(* Each runs one operation: a hold_key scope, a hold_mouse scope or a      *)
(* capture.  A task runs until an await suspends it: the drain() after a   *)
(* write and the await in the body of a scope may suspend or not, a        *)
(* reader.read() suspends when the stream's buffer is empty.  The loop     *)
(* then resumes any task that can go on, or feeds bytes that have arrived  *)
(* to the StreamReader.  tasks.cur is the task that runs (0: the loop      *)
(* chooses), tasks.waiter the task StreamReader._waiter belongs to,        *)
(* tasks.log the writer.write calls, tasks.tags the server message each    *)
(* unread byte belongs to and tasks.took which task has read bytes of      *)
(* which message.                                                          *)
(***************************************************************************)
TaskIds == {1, 2}
TaskKeyLists == {<<"a">>, <<"Ctrl">>, <<"Ctrl", "a">>}

TaskOf(op, keys, button, relative) ==
    [op |-> op, keys |-> keys, button |-> button, relative |-> relative,
     at |-> CASE op = "hold_key" -> "press"
              [] op = "hold_mouse" -> "enter"
              [] OTHER -> "request",
     i |-> 0, old |-> "unset", woken |-> FALSE, unit |-> "MSG", got |-> <<>>,
     remaining |-> 0, written |-> {}, err |-> "none"]

TaskProgrammes ==
    {TaskOf("hold_key", k, 0, FALSE) : k \in TaskKeyLists}
    \cup {TaskOf("hold_mouse", <<>>, b, r) : b \in Buttons, r \in BOOLEAN}
    \cup {TaskOf("capture", <<>>, 0, FALSE)}

\* the loop may run task t: it is the running task, or no task runs and t
\* is not waiting for bytes that have not arrived
Runs(t) ==
    \/ tasks.cur = t
    \/ /\ tasks.cur = 0
       /\ tasks.t[t].at = "wait" => tasks.t[t].woken

\* an await that suspends hands control to the loop
Await(t, s) == IF s THEN 0 ELSE t

\* Mutant of WriteCalls: the type byte and the rest are written apart.
WriteCallsTypeFirst(bytes) == <<Take(bytes, 1), Drop(bytes, 1)>>

\* the writer.write calls that hand a message to the connection
WriteCalls(bytes) == <<bytes>>

Logged(log, t, bytes) ==
    log \o [k \in 1..Len(WriteCalls(bytes)) |->
               [task |-> t, bytes |-> WriteCalls(bytes)[k]]]

\* what no step of a task or of the server changes
taskFixed == <<variant, cfg, pc, err, reason, nread, sockOpen, auth_type, rect,
               region, request, pixels, remaining, result, marks, written,
               frames, exc, outcome, mouse_position, calls, twin>>

\* _write_key up to its yield, entered by hold_key for the next key
TaskKeyPress ==
    \E t \in TaskIds, s \in Suspends :
        /\ Runs(t)
        /\ tasks.t[t].op = "hold_key"
        /\ tasks.t[t].at = "press"
        /\ LET me == tasks.t[t]
               data == KeyEvent(1, me.keys[me.i + 1])
           IN /\ sent' = sent \o data
              /\ tasks' = [tasks EXCEPT
                     !.cur = Await(t, s),
                     !.log = Logged(@, t, data),
                     !.t[t] = [me EXCEPT
                         !.i = @ + 1,
                         !.at = IF me.i + 1 = Len(me.keys)
                                THEN "body" ELSE "press"]]
        /\ UNCHANGED <<taskFixed, inbuf, srv, zdec, mouse_buttons,
                       relative_mode>>

\* the body of a hold_key scope, which may await
TaskKeyBody ==
    \E t \in TaskIds, s \in Suspends :
        /\ Runs(t)
        /\ tasks.t[t].op = "hold_key"
        /\ tasks.t[t].at = "body"
        /\ tasks' = [tasks EXCEPT !.cur = Await(t, s),
                                  !.t[t].at = "release"]
        /\ UNCHANGED <<taskFixed, sent, inbuf, srv, zdec, mouse_buttons,
                       relative_mode>>

\* _write_key after its yield, for the key the exit stack unwinds next
TaskKeyRelease ==
    \E t \in TaskIds, s \in Suspends :
        /\ Runs(t)
        /\ tasks.t[t].op = "hold_key"
        /\ tasks.t[t].at = "release"
        /\ LET me == tasks.t[t]
               key == ExitStackNext([keys |-> me.keys, n |-> Len(me.keys),
                                     r |-> Len(me.keys) - me.i])
               data == KeyEvent(0, key)
           IN /\ sent' = sent \o data
              /\ tasks' = [tasks EXCEPT
                     !.cur = IF me.i = 1 THEN 0 ELSE Await(t, s),
                     !.log = Logged(@, t, data),
                     !.t[t] = [me EXCEPT
                         !.i = @ - 1,
                         !.at = IF me.i = 1 THEN "done" ELSE "release"]]
        /\ UNCHANGED <<taskFixed, inbuf, srv, zdec, mouse_buttons,
                       relative_mode>>

\* hold_mouse up to the drain of its first _write_mouse
TaskMouseEnter ==
    \E t \in TaskIds, s \in Suspends :
        /\ Runs(t)
        /\ tasks.t[t].op = "hold_mouse"
        /\ tasks.t[t].at = "enter"
        /\ LET b == OrMask(mouse_buttons, Mask(tasks.t[t].button))
           IN /\ mouse_buttons' = b
              /\ sent' = sent \o PointerEvent(b)
              /\ tasks' = [tasks EXCEPT
                     !.cur = Await(t, s),
                     !.log = Logged(@, t, PointerEvent(b)),
                     !.t[t].at = "entered"]
        /\ UNCHANGED <<taskFixed, inbuf, srv, zdec, relative_mode>>

\* hold_mouse from the try to the body, which may await
TaskMouseBody ==
    \E t \in TaskIds, s \in Suspends :
        /\ Runs(t)
        /\ tasks.t[t].op = "hold_mouse"
        /\ tasks.t[t].at = "entered"
        /\ relative_mode' = IF tasks.t[t].relative THEN "true" ELSE "false"
        /\ tasks' = [tasks EXCEPT !.cur = Await(t, s),
                                  !.t[t].old = GetRelativeMode,
                                  !.t[t].at = "exit"]
        /\ UNCHANGED <<taskFixed, sent, inbuf, srv, zdec, mouse_buttons>>

\* the finally of hold_mouse up to the drain of its _write_mouse
TaskMouseExit ==
    \E t \in TaskIds, s \in Suspends :
        /\ Runs(t)
        /\ tasks.t[t].op = "hold_mouse"
        /\ tasks.t[t].at = "exit"
        /\ LET b == AndNotMask(mouse_buttons, Mask(tasks.t[t].button))
           IN /\ mouse_buttons' = b
              /\ sent' = sent \o PointerEvent(b)
              /\ tasks' = [tasks EXCEPT
                     !.cur = Await(t, s),
                     !.log = Logged(@, t, PointerEvent(b)),
                     !.t[t].at = "restore"]
        /\ UNCHANGED <<taskFixed, inbuf, srv, zdec, relative_mode>>

\* the last statement of the finally: self._relative_mode = old_relative
TaskMouseRestore ==
    \E t \in TaskIds :
        /\ Runs(t)
        /\ tasks.t[t].op = "hold_mouse"
        /\ tasks.t[t].at = "restore"
        /\ relative_mode' = tasks.t[t].old
        /\ tasks' = [tasks EXCEPT !.cur = 0, !.t[t].at = "done"]
        /\ UNCHANGED <<taskFixed, sent, inbuf, srv, zdec, mouse_buttons>>

\* capture() of the whole framebuffer up to the drain of its request
TaskCaptureRequest ==
    \E t \in TaskIds, s \in Suspends :
        /\ Runs(t)
        /\ tasks.t[t].op = "capture"
        /\ tasks.t[t].at = "request"
        /\ LET data == <<3, 0>> \o ToBytes(0, 2) \o ToBytes(0, 2)
                       \o ToBytes(rect.width, 2) \o ToBytes(rect.height, 2)
           IN /\ sent' = sent \o data
              /\ tasks' = [tasks EXCEPT
                     !.cur = Await(t, s),
                     !.log = Logged(@, t, data),
                     !.t[t].at = "read"]
        /\ UNCHANGED <<taskFixed, inbuf, srv, zdec, mouse_buttons,
                       relative_mode>>

\* reader.read() on an empty buffer: RuntimeError when another coroutine
\* waits for data already, else the task waits; a task woken for bytes
\* that another task has taken receives b'' and read raises ConnectionError
TaskReadEmpty ==
    \E t \in TaskIds :
        /\ Runs(t)
        /\ tasks.t[t].at \in {"read", "wait"}
        /\ inbuf = <<>>
        /\ tasks' =
             IF tasks.t[t].at = "wait"
             THEN [tasks EXCEPT !.cur = 0, !.t[t].at = "failed",
                                !.t[t].err = "ConnectionError"]
             ELSE IF tasks.waiter # 0
             THEN [tasks EXCEPT !.cur = 0, !.t[t].at = "failed",
                                !.t[t].err = "RuntimeError"]
             ELSE [tasks EXCEPT !.cur = 0, !.waiter = t,
                                !.t[t].at = "wait", !.t[t].woken = FALSE]
        /\ UNCHANGED <<taskFixed, sent, inbuf, srv, zdec, mouse_buttons,
                       relative_mode>>

\* the bytes the reads of the current pass of capture's loops ask for
UnitNeed(unit, got) ==
    IF unit = "MSG" THEN MessageNeed(got) ELSE RectNeed(got)

\* the task after the region test that follows the last rectangle
TaskEndOfMessage(me) ==
    IF Cells(rect) \subseteq me.written
    THEN [me EXCEPT !.at = "done", !.unit = "MSG", !.got = <<>>,
                    !.remaining = 0]
    ELSE [me EXCEPT !.at = "read", !.unit = "MSG", !.got = <<>>,
                    !.remaining = 0]

\* the task after one pass of the while loop up to the rectangles, with the
\* bytes got
TaskMessage(me, got) ==
    IF got[1] = MSG_TYPE_CLIPBOARD
    THEN [me EXCEPT !.at = "read", !.got = <<>>]
    ELSE IF got[1] = MSG_TYPE_FRAMEBUFFER_UPDATE
    THEN IF ReadInt(got, 2, 2) = 0
         THEN TaskEndOfMessage(me)
         ELSE [me EXCEPT !.at = "read", !.unit = "RECT", !.got = <<>>,
                         !.remaining = ReadInt(got, 2, 2)]
    ELSE [me EXCEPT !.at = "failed", !.err = "UnknownMessageType"]

\* the error of one pass of the for loop with the bytes got, "none" if the
\* rectangle is written
TaskRectError(got) ==
    LET area_rect == RectOf(got)
        area_encoding == ReadInt(got, 8, 4)
        z == ZDecompress(zdec, SubSeq(got, 17, RectNeed(got)))
        area == IF area_encoding = ENCODING_RAW
                THEN SubSeq(got, 13, RectNeed(got))
                ELSE z.out
    IN IF area_encoding \notin {ENCODING_RAW, ENCODING_ZLIB}
       THEN "UnsupportedEncoding"
       ELSE IF area_encoding = ENCODING_ZLIB /\ z.bad THEN "ZlibError"
       ELSE IF Len(area) < RawLen(area_rect) THEN "BufferTooSmall"
       ELSE IF ~AssignFits(area_rect, rect) THEN "ShapeMismatch"
       ELSE "none"

\* the task after one pass of the for loop with the bytes got
TaskRect(me, got) ==
    IF TaskRectError(got) # "none"
    THEN [me EXCEPT !.at = "failed", !.err = TaskRectError(got)]
    ELSE LET w == [me EXCEPT !.written = @ \cup slice_rect(RectOf(got), rect)]
         IN IF me.remaining = 1
            THEN TaskEndOfMessage(w)
            ELSE [w EXCEPT !.at = "read", !.got = <<>>,
                           !.remaining = @ - 1]

\* reader.read() on a buffer that holds bytes returns at once with at most
\* the bytes asked for; with the last byte of a pass of the loop the pass
\* is carried out
TaskReadTake ==
    \E t \in TaskIds :
        /\ Runs(t)
        /\ tasks.t[t].at \in {"read", "wait"}
        /\ inbuf # <<>>
        /\ LET me == tasks.t[t]
               want == UnitNeed(me.unit, me.got) - Len(me.got)
               k == IF want < Len(inbuf) THEN want ELSE Len(inbuf)
               got == me.got \o Take(inbuf, k)
               after == IF Len(got) < UnitNeed(me.unit, got)
                        THEN [me EXCEPT !.at = "read", !.got = got]
                        ELSE IF me.unit = "MSG" THEN TaskMessage(me, got)
                        ELSE TaskRect(me, got)
               decoded == Len(got) >= UnitNeed(me.unit, got)
                          /\ me.unit = "RECT"
                          /\ ReadInt(got, 8, 4) = ENCODING_ZLIB
           IN /\ inbuf' = Drop(inbuf, k)
              /\ zdec' = IF decoded
                         THEN ZDecompress(zdec,
                                  SubSeq(got, 17, RectNeed(got))).state
                         ELSE zdec
              /\ tasks' = [tasks EXCEPT
                     !.cur = IF after.at \in {"done", "failed"} THEN 0 ELSE t,
                     !.tags = Drop(@, k),
                     !.took = @ \cup {<<tasks.tags[j], t>> : j \in 1..k},
                     !.t[t] = after]
        /\ UNCHANGED <<taskFixed, sent, srv, mouse_buttons, relative_mode>>

\* the FramebufferUpdateRequests written so far
Requests == Cardinality({k \in 1..Len(tasks.log) : tasks.log[k].bytes[1] = 3})

\* The server answers each request with a FramebufferUpdate of one Raw
\* rectangle over the framebuffer, which arrives whole or as its header and
\* then its rectangle, while no task runs: feed_data extends the buffer and
\* wakes the waiter.
SrvTaskSend ==
    /\ tasks.cur = 0
    /\ \E whole \in BOOLEAN :
        LET r == [x |-> 0, y |-> 0, width |-> rect.width,
                  height |-> rect.height]
            head == <<MSG_TYPE_FRAMEBUFFER_UPDATE, 0>> \o ToBytes(1, 2)
            body == ToBytes(r.x, 2) \o ToBytes(r.y, 2) \o ToBytes(r.width, 2)
                    \o ToBytes(r.height, 2) \o ToBytes(ENCODING_RAW, 4)
                    \o RectData(r, 1)
            begins == srv.left = 0
            bytes == IF ~begins THEN body
                     ELSE IF whole THEN head \o body ELSE head
            id == IF begins THEN tasks.nmsg + 1 ELSE tasks.nmsg
        IN /\ begins => tasks.nmsg < Requests
           /\ ~begins => whole
           /\ srv' = [srv EXCEPT !.left = IF begins /\ ~whole THEN 1 ELSE 0]
           /\ inbuf' = inbuf \o bytes
           /\ tasks' = [tasks EXCEPT
                  !.nmsg = id,
                  !.tags = @ \o [k \in 1..Len(bytes) |-> id],
                  !.waiter = 0,
                  !.t = [t \in TaskIds |->
                            IF t = tasks.waiter
                            THEN [@[t] EXCEPT !.woken = TRUE] ELSE @[t]]]
    /\ UNCHANGED <<taskFixed, sent, zdec, mouse_buttons, relative_mode>>

InitTasks ==
    /\ variant = "async"
    /\ cfg = [password |-> [set |-> FALSE, bytes |-> <<>>],
              pixel_format |-> "rgba"]
    /\ pc = "INIT_READY"
    /\ err = "none"
    /\ reason = <<>>
    /\ sent = <<>>
    /\ inbuf = <<>>
    /\ nread = 0
    /\ sockOpen = TRUE
    /\ auth_type = AUTH_TYPE_NONE
    /\ rect = [width |-> 1, height |-> 1]
    /\ srv = [SrvStart EXCEPT !.pc = "run", !.fb = rect]
    /\ CapIdle
    /\ frames = <<>>
    /\ exc = "none"
    /\ outcome = "none"
    /\ mouse_position = [x |-> 0, y |-> 0]
    /\ mouse_buttons = 0
    /\ relative_mode = "unset"
    /\ calls = 0
    /\ twin = NoTwin
    /\ tasks \in {[cur |-> 0, waiter |-> 0, t |-> <<p, q>>, log |-> <<>>,
                   tags |-> <<>>, took |-> {}, nmsg |-> 0] :
                  p \in TaskProgrammes, q \in TaskProgrammes}

NextTasks ==
    \/ TaskKeyPress
    \/ TaskKeyBody
    \/ TaskKeyRelease
    \/ TaskMouseEnter
    \/ TaskMouseBody
    \/ TaskMouseExit
    \/ TaskMouseRestore
    \/ TaskCaptureRequest
    \/ TaskReadEmpty
    \/ TaskReadTake
    \/ SrvTaskSend

SpecTasks == InitTasks /\ [][NextTasks]_vars

(***************************************************************************)
(* Claims about concurrent tasks, checked under SpecTasks.                 *)
(***************************************************************************)
\* The keys down after the KeyEvent writes of log, each with the task that
\* pressed it, latest on top; ok is FALSE once a release was written for a
\* key of one task while a key the other task pressed after it was down.
RECURSIVE KeysDown(_, _)
KeysDown(log, st) ==
    IF log = <<>> THEN st
    ELSE LET e == log[1]
             rest == SubSeq(log, 2, Len(log))
             mine == {j \in 1..Len(st.keys) :
                         /\ st.keys[j].task = e.task
                         /\ st.keys[j].key = SubSeq(e.bytes, 5, 8)}
             at == CHOOSE j \in mine : \A q \in mine : q <= j
         IN IF Len(e.bytes) # 8 \/ e.bytes[1] # 4 THEN KeysDown(rest, st)
            ELSE IF e.bytes[2] = 1
            THEN KeysDown(rest,
                     [st EXCEPT !.keys = Append(@, [task |-> e.task,
                                    key |-> SubSeq(e.bytes, 5, 8)])])
            ELSE IF mine = {} THEN KeysDown(rest, [st EXCEPT !.ok = FALSE])
            ELSE KeysDown(rest,
                     [keys |-> SubSeq(st.keys, 1, at - 1)
                               \o SubSeq(st.keys, at + 1, Len(st.keys)),
                      ok |-> st.ok /\ \A j \in (at + 1)..Len(st.keys) :
                                          st.keys[j].task = e.task])

\* C35: when two tasks run hold_key scopes on one async session, in every
\* interleaving no key pressed by one task is released while a key pressed
\* later by the other task is still held.
C35_ReleasesInReverseAcrossTasks ==
    (\A t \in TaskIds : tasks.t[t].op = "hold_key") =>
        KeysDown(tasks.log, [keys |-> <<>>, ok |-> TRUE]).ok

\* C36: when two tasks call capture on one async session, in every
\* interleaving the bytes of one server message are read by one capture:
\* no message has bytes taken by both tasks.
C36_OneReaderAtATime ==
    (\A t \in TaskIds : tasks.t[t].op = "capture") =>
        \A m \in 1..tasks.nmsg :
            Cardinality({t \in TaskIds : <<m, t>> \in tasks.took}) <= 1

\* C38: when two tasks each run a hold_mouse scope on one async session,
\* with different buttons and different relative flags, then in every
\* interleaving, once both scopes have exited, the button mask is 0 and the
\* relative mode is what it was before either scope was entered (False).
C38_MouseStateRestoredAcrossTasks ==
    (/\ \A t \in TaskIds : tasks.t[t].op = "hold_mouse" /\ tasks.t[t].at = "done"
     /\ tasks.t[1].button # tasks.t[2].button
     /\ tasks.t[1].relative # tasks.t[2].relative) =>
        /\ mouse_buttons = 0
        /\ GetRelativeMode = "false"

\* the bytes of the writes of task t in log, in the order written
RECURSIVE WrittenBy(_, _)
WrittenBy(log, t) ==
    IF log = <<>> THEN <<>>
    ELSE (IF log[1].task = t THEN log[1].bytes ELSE <<>>)
         \o WrittenBy(SubSeq(log, 2, Len(log)), t)

RECURSIVE OnTheWire(_)
OnTheWire(log) ==
    IF log = <<>> THEN <<>>
    ELSE log[1].bytes \o OnTheWire(SubSeq(log, 2, Len(log)))

\* the writes of task t in log
WritesOf(log, t) == {k \in 1..Len(log) : log[k].task = t}

\* a KeyEvent, a PointerEvent or a FramebufferUpdateRequest, whole
WholeMessage(bytes) ==
    /\ bytes # <<>>
    /\ \/ bytes[1] = 4 /\ Len(bytes) = 8
       \/ bytes[1] = 5 /\ Len(bytes) = 6
       \/ bytes[1] = 3 /\ Len(bytes) = 10

\* The messages the operation of a task has issued so far, in the order of
\* its statements.  A PointerEvent carries the mask of the session, in
\* which the bit of the task's button is set by the first and cleared by
\* the second message of a hold_mouse scope.
IssuedInOrder(log, t) ==
    LET me == tasks.t[t]
        n == Len(me.keys)
        ws == WritesOf(log, t)
    IN CASE me.op = "hold_key" ->
              WrittenBy(log, t) =
                  IF me.at \in {"press", "body"}
                  THEN KeyEvents(1, SubSeq(me.keys, 1, me.i))
                  ELSE KeyEvents(1, me.keys)
                       \o KeyEvents(0, SubSeq(Reverse(me.keys), 1, n - me.i))
         [] me.op = "hold_mouse" ->
              /\ Cardinality(ws) = CASE me.at = "enter" -> 0
                                     [] me.at \in {"entered", "exit"} -> 1
                                     [] OTHER -> 2
              /\ \A k \in ws :
                    /\ log[k].bytes[1] = 5
                    /\ HasMask(log[k].bytes[2], Mask(me.button))
                         <=> (\A q \in ws : k <= q)
         [] OTHER ->
              WrittenBy(log, t) =
                  IF me.at = "request" THEN <<>>
                  ELSE <<3, 0>> \o ToBytes(0, 2) \o ToBytes(0, 2)
                       \o ToBytes(rect.width, 2) \o ToBytes(rect.height, 2)

\* C37: every KeyEvent, PointerEvent and FramebufferUpdateRequest is handed
\* to the connection in a single write; in every interleaving of two tasks
\* the wire carries the writes one after the other, so the bytes of each
\* message are contiguous, and the messages of one task appear in the order
\* of that task's statements.
C37_WholeMessagesInProgramOrder ==
    /\ \A k \in 1..Len(tasks.log) : WholeMessage(tasks.log[k].bytes)
    /\ sent = OnTheWire(tasks.log)
    /\ \A t \in TaskIds : IssuedInOrder(tasks.log, t)

\* Two hold_key scopes whose messages alternate on the wire.
C37_Witness ==
    /\ \A t \in TaskIds : tasks.t[t].op = "hold_key" /\ tasks.t[t].at = "done"
    /\ Len(tasks.log) = 6
    /\ tasks.log[1].task = 1
    /\ tasks.log[2].task = 2
    /\ tasks.log[3].task = 1
    /\ tasks.log[4].task = 2
    /\ sent = KeyEvent(1, "Ctrl") \o KeyEvent(1, "a") \o KeyEvent(1, "a")
              \o KeyEvent(0, "a") \o KeyEvent(0, "a") \o KeyEvent(0, "Ctrl")

====
